---- MODULE Spec2Model ----
(***************************************************************************)
(* A model of the RAG pipeline of this repository: the conversation        *)
(* memory, the retriever, the generator, the ingestion stages and the      *)
(* orchestrator RAGApplication that wires them together.                   *)
(*                                                                         *)
(* External services (embedding provider, vector database, LLM provider,   *)
(* file system) are the environment: each call to one of them either       *)
(* returns or fails, chosen nondeterministically by the action that makes  *)
(* the call.  What the repository's code does with the outcome is          *)
(* translated from the code.                                               *)
(***************************************************************************)
EXTENDS Integers, Sequences, FiniteSets, TLC

VARIABLES
    messages,      \* ConversationMemory.messages
    max_history,   \* ConversationMemory.max_history
    store,         \* records of the vector database collection
    pc,            \* per caller: position inside the operation in progress
    arg,           \* per caller: the arguments of the operation in progress
    chunks,        \* per caller: ingest_documents' local chunks / embedded_chunks
    documents,     \* per caller: the local `documents` of query / chat / summary
    history,       \* per caller: chat's local `conversation_history`
    ret,           \* per caller: the value the operation returned
    raised,        \* per caller: TRUE when an exception left the operation
    log,           \* per caller: the calls the operation made, in order
    sent,          \* per caller: the filter handed to the vector database
    prompt,        \* per caller: the prompt handed to the LLM
    hits,          \* per caller: what the vector database answered
    schema         \* collections and payload indexes of the vector database

vars == <<messages, max_history, store, pc, arg, chunks, documents, history,
          ret, raised, log, sent, prompt, hits, schema>>

(***************************************************************************)
(* Bounds of the model.                                                    *)
(***************************************************************************)
\* The application's history cap (20 in the code) scaled down, and the
\* largest cap a bare ConversationMemory is constructed with.
MaxHistory == 2
\* Messages a bare ConversationMemory is driven to when its cap does not trim.
MaxMsgs == 4
\* Largest k / limit passed to the retriever.
MaxK == 2
\* Largest conversation_context_size passed to chat.
MaxCtx == 1
\* Records the vector database collection is filled to.
MaxStore == 1
\* Longest chunk list handed to a bare EmbeddingsGenerator.
MaxChunks == 3
\* Records a bare VectorStore fills the collection to.
MaxRecords == 4
\* Half of the largest even history cap of an application used for chats.
MaxPairs == 2

Threads == {"t1", "t2"}
Main == "t1"

(***************************************************************************)
(* Python values.                                                          *)
(***************************************************************************)
\* Optional[int]: None is the empty tuple, an integer y is <<y>>.
None == <<>>
Some(y) == <<y>>
\* Python truthiness of an Optional[int]: None and 0 are falsy.
TruthyInt(v) == v # None /\ v[1] # 0
\* Python truthiness of a list / dict.
TruthySeq(s) == Len(s) > 0

\* seq[start:] as Python evaluates it (negative start counts from the end,
\* out-of-range starts are clamped).
PySliceFrom(seq, start) ==
    LET n == Len(seq)
        lo == IF start < 0
              THEN (IF n + start < 0 THEN 0 ELSE n + start)
              ELSE (IF start > n THEN n ELSE start)
    IN  SubSeq(seq, lo + 1, n)

RECURSIVE JoinWith(_, _)
\* sep.join(parts)
JoinWith(parts, sep) ==
    IF Len(parts) = 0 THEN ""
    ELSE IF Len(parts) = 1 THEN parts[1]
    ELSE parts[1] \o sep \o JoinWith(Tail(parts), sep)

(***************************************************************************)
(* ConversationMemory  (src/src/conversation_memory.py)                    *)
(***************************************************************************)
UserMsg(text) == [role |-> "user", content |-> text]
AssistantMsg(text) == [role |-> "assistant", content |-> text]

\* if len(self.messages) > self.max_history:
\*     self.messages = self.messages[-self.max_history:]
trim_history(msgs, cap) ==
    IF Len(msgs) > cap THEN PySliceFrom(msgs, 0 - cap) ELSE msgs

\* add_user_message that forgets the append.
AddUserMessageNoAppend(msgs, cap, text) == trim_history(msgs, cap)

add_user_message(msgs, cap, text) ==
    trim_history(Append(msgs, UserMsg(text)), cap)

\* add_assistant_message that appends the message twice.
AddAssistantMessageTwice(msgs, cap, text) ==
    trim_history(Append(Append(msgs, AssistantMsg(text)), AssistantMsg(text)), cap)

add_assistant_message(msgs, cap, text) ==
    trim_history(Append(msgs, AssistantMsg(text)), cap)

\* conversation_context_size as a Python value: an int, None, or a value of
\* another type (a str), for which `num_messages >= len(...)` raises TypeError.
CtxInt(n) == [t |-> "int", v |-> n]
CtxNone == [t |-> "none", v |-> 0]
CtxStr == [t |-> "str", v |-> 0]

ContextLine(msg) ==
    (IF msg.role = "user" THEN "User" ELSE "Assistant") \o ": " \o msg.content

\* get_context_string: [ok |-> FALSE] stands for the TypeError of the
\* comparison at line 70.
get_context_string(msgs, num) ==
    IF num.t = "str" THEN [ok |-> FALSE, val |-> "TypeError"]
    ELSE LET included == IF num.t = "none" \/ num.v >= Len(msgs)
                         THEN msgs
                         ELSE PySliceFrom(msgs, 0 - num.v)
         IN  [ok |-> TRUE,
              val |-> JoinWith([i \in 1..Len(included) |-> ContextLine(included[i])], "\n")]

(***************************************************************************)
(* The vector database (external).  A stored record is                     *)
(* [id, vector, payload |-> [text, metadata]]; metadata is a dict, modelled *)
(* as a function whose domain is the set of keys present.                  *)
(***************************************************************************)
EmptyDict == [x \in {} |-> 0]
DictPut(d, key, value) ==
    [x \in DOMAIN d \cup {key} |-> IF x = key THEN value ELSE d[x]]
\* d.get(key, default)
DictGet(d, key, default) == IF key \in DOMAIN d THEN d[key] ELSE default

\* A filter as handed to client.search / client.scroll: None, or
\* models.Filter(must=[FieldCondition(key, MatchValue(value)), ...]).
NoFilter == [sent |-> TRUE, present |-> FALSE, must |-> <<>>]
Filter(must) == [sent |-> TRUE, present |-> TRUE, must |-> must]
FieldCondition(key, value) == [key |-> key, value |-> value]
\* The value of `sent` while no database call was made.
NotSent == [sent |-> FALSE, present |-> FALSE, must |-> <<>>]

\* "metadata.<field>" -> "<field>"
FieldOf(key) == SubSeq(key, 10, Len(key))

\* The database's match of one must-condition against a payload: the field
\* is present and equals the value, or is an array holding the value.
Matches(payload, cond) ==
    LET md == payload.metadata
        field == FieldOf(cond.key)
    IN  /\ field \in DOMAIN md
        /\ IF field = "years_mentioned"
           THEN \E i \in 1..Len(md[field]) : md[field][i] = cond.value
           ELSE md[field] = cond.value

Honours(payload, filter) ==
    filter.present => \A i \in 1..Len(filter.must) : Matches(payload, filter.must[i])

Matching(db, filter) == {i \in 1..Len(db) : Honours(db[i].payload, filter)}

Min(a, b) == IF a < b THEN a ELSE b

\* Similarity scores are the database's business: the hit at position p of a
\* result gets a score that decreases with p.
ScoreAt(p) == 10 - p

\* The results a nearest-neighbour search over db may return: the limit (or
\* all) matching records, in an order the database chooses, best score first.
SearchResults(db, filter, limit) ==
    LET m == Matching(db, filter)
        n == Min(limit, Cardinality(m))
        orders == {o \in [1..n -> m] : \A i, j \in 1..n : i # j => o[i] # o[j]}
    IN  {[p \in 1..n |-> [payload |-> db[o[p]].payload, score |-> ScoreAt(p)]] : o \in orders}

\* The results a scroll over db may return: the first `limit` matching
\* records in storage order, without scores.
ScrollResults(db, filter, limit) ==
    LET m == Matching(db, filter)
        RECURSIVE Take(_, _)
        Take(i, left) ==
            IF i > Len(db) \/ left = 0 THEN <<>>
            ELSE IF i \in m THEN <<[payload |-> db[i].payload]>> \o Take(i + 1, left - 1)
            ELSE Take(i + 1, left)
    IN  Take(1, limit)

(***************************************************************************)
(* Retriever  (src/src/retriever.py)                                       *)
(***************************************************************************)
\* A Document that is given the score 1 whatever the hit's score.
DocumentUnitScore(payload, score) ==
    [content |-> payload.text, source |-> "Unknown", score |-> 1,
     metadata |-> payload.metadata]

\* Document(content, source, score, metadata) built from one hit.
Document(payload, score) ==
    [content |-> DictGet(payload, "text", ""),
     source |-> DictGet(DictGet(payload, "metadata", EmptyDict), "source", "Unknown"),
     score |-> score,
     metadata |-> DictGet(payload, "metadata", EmptyDict)]

\* for key, value in filter_params.items(): one FieldCondition each (99-105).
\* A dict is the sequence of its <<key, value>> items.
ParamConditions(filter_params) ==
    [i \in 1..Len(filter_params) |-> FieldCondition(filter_params[i][1], filter_params[i][2])]

\* retrieve, lines 93-121.  filter_params: None and {} are both the empty
\* sequence.
RetrieveFilter(filter_params, year, financial_only) ==
    IF TruthySeq(filter_params) \/ TruthyInt(year) \/ financial_only
    THEN Filter(ParamConditions(filter_params)
                \o (IF TruthyInt(year)
                    THEN <<FieldCondition("metadata.years_mentioned", year[1])>>
                    ELSE <<>>)
                \o (IF financial_only
                    THEN <<FieldCondition("metadata.contains_financial_info", TRUE)>>
                    ELSE <<>>))
    ELSE NoFilter

\* search_by_filters, lines 170-194.
ScrollFilter(financial_only, year, source_file) ==
    LET must == (IF financial_only
                 THEN <<FieldCondition("metadata.contains_financial_info", TRUE)>>
                 ELSE <<>>)
                \o (IF TruthyInt(year)
                    THEN <<FieldCondition("metadata.years_mentioned", year[1])>>
                    ELSE <<>>)
                \o (IF source_file # ""
                    THEN <<FieldCondition("metadata.source", source_file)>>
                    ELSE <<>>)
    IN  IF TruthySeq(must) THEN Filter(must) ELSE NoFilter

\* An except clause that logs and re-raises.
ReturnEmptyReraise(r) ==
    IF r.exc THEN [r EXCEPT !.raised = TRUE, !.calls = @ \o <<"logging.error">>] ELSE r

\* except Exception as e: log; return []   (retrieve 146-148, search_by_filters 219-221)
ReturnEmptyOnError(r) ==
    IF r.exc
    THEN [r EXCEPT !.documents = <<>>, !.raised = FALSE, !.calls = @ \o <<"logging.error">>]
    ELSE r

\* The body of retrieve's try block.  env is what the external calls do:
\* env.embed / env.search / env.map say whether embed_query, client.search and
\* the construction of the Document objects succeed; env.hits is the search
\* result, kept in `hits`.  exc is TRUE when an exception was raised inside the block, which
\* `calls` then ends with.
RetrieveTry(filter_params, year, financial_only, env) ==
    IF ~env.embed
    THEN [documents |-> <<>>, exc |-> TRUE, raised |-> FALSE,
          calls |-> <<"embed_query", "raise">>, filter |-> NotSent, hits |-> <<>>]
    ELSE LET f == RetrieveFilter(filter_params, year, financial_only)
         IN  IF ~env.search
             THEN [documents |-> <<>>, exc |-> TRUE, raised |-> FALSE,
                   calls |-> <<"embed_query", "client.search", "raise">>, filter |-> f,
                   hits |-> <<>>]
             ELSE IF ~env.map
             THEN [documents |-> <<>>, exc |-> TRUE, raised |-> FALSE,
                   calls |-> <<"embed_query", "client.search", "raise">>, filter |-> f,
                   hits |-> env.hits]
             ELSE [documents |-> [i \in 1..Len(env.hits) |->
                                    Document(env.hits[i].payload, env.hits[i].score)],
                   exc |-> FALSE, raised |-> FALSE,
                   calls |-> <<"embed_query", "client.search">>, filter |-> f,
                   hits |-> env.hits]

retrieve(filter_params, year, financial_only, env) ==
    ReturnEmptyOnError(RetrieveTry(filter_params, year, financial_only, env))

\* The body of search_by_filters' try block; env.search / env.map / env.hits
\* as above, for client.scroll.  Every result gets the score 1.0.
SearchByFiltersTry(financial_only, year, source_file, env) ==
    LET f == ScrollFilter(financial_only, year, source_file)
    IN  IF ~env.search \/ ~env.map
        THEN [documents |-> <<>>, exc |-> TRUE, raised |-> FALSE,
              calls |-> <<"client.scroll", "raise">>, filter |-> f,
              hits |-> IF env.search THEN env.hits ELSE <<>>]
        ELSE [documents |-> [i \in 1..Len(env.hits) |-> Document(env.hits[i].payload, 1)],
              exc |-> FALSE, raised |-> FALSE,
              calls |-> <<"client.scroll">>, filter |-> f, hits |-> env.hits]

search_by_filters(financial_only, year, source_file, env) ==
    ReturnEmptyOnError(SearchByFiltersTry(financial_only, year, source_file, env))

\* What the external calls of one retrieve may do, given the database
\* content: every combination of failures, and every result the database may
\* return for the filter it is handed.
RetrieveEnvs(db, filter_params, year, financial_only, k) ==
    {[embed |-> FALSE, search |-> TRUE, map |-> TRUE, hits |-> <<>>],
     [embed |-> TRUE, search |-> FALSE, map |-> TRUE, hits |-> <<>>]}
    \cup {[embed |-> TRUE, search |-> TRUE, map |-> m, hits |-> h] :
            m \in BOOLEAN,
            h \in SearchResults(db, RetrieveFilter(filter_params, year, financial_only), k)}

ScrollEnvs(db, financial_only, year, source_file, limit) ==
    {[embed |-> TRUE, search |-> FALSE, map |-> TRUE, hits |-> <<>>]}
    \cup {[embed |-> TRUE, search |-> TRUE, map |-> m,
           hits |-> ScrollResults(db, ScrollFilter(financial_only, year, source_file), limit)] :
            m \in BOOLEAN}

(***************************************************************************)
(* Generator  (src/src/generator.py)                                       *)
(***************************************************************************)
GeneratorSentinel == "I don't have enough information to answer that question."
SummarySentinel == "No financial information is available to summarize."
NoPrompt == [template |-> "none"]

\* What one LLM invocation may do: answer, or fail with a message.
LlmOutcomes == {[ok |-> TRUE, text |-> "a1"], [ok |-> FALSE, text |-> "timeout"]}

\* A _format_context that lists the documents last first.
FormatContextReversed(docs) ==
    JoinWith([i \in 1..Len(docs) |->
                "[Document " \o ToString(i) \o " from "
                \o docs[Len(docs) + 1 - i].source \o "]\n"
                \o docs[Len(docs) + 1 - i].content \o "\n"], "\n")

\* _format_context: "[Document i from <source>]\n<content>\n" joined by "\n".
format_context(docs) ==
    JoinWith([i \in 1..Len(docs) |->
                "[Document " \o ToString(i) \o " from " \o docs[i].source \o "]\n"
                \o docs[i].content \o "\n"], "\n")

\* A generate_response that invokes the LLM a second time when it failed.
GenerateResponseRetry(query, docs, llm) ==
    [val |-> IF llm.ok THEN llm.text
             ELSE "An error occurred while generating the response: " \o llm.text,
     calls |-> IF llm.ok THEN <<"llm.invoke">> ELSE <<"llm.invoke", "raise", "llm.invoke">>,
     prompt |-> NoPrompt]

\* generate_response, lines 144-167.  calls ends with "raise" when the chain
\* raised.
generate_response(query, docs, llm) ==
    IF ~TruthySeq(docs)
    THEN [val |-> GeneratorSentinel, calls |-> <<>>, prompt |-> NoPrompt]
    ELSE [val |-> IF llm.ok THEN llm.text
                  ELSE "An error occurred while generating the response: " \o llm.text,
          calls |-> IF llm.ok THEN <<"llm.invoke">> ELSE <<"llm.invoke", "raise">>,
          prompt |-> [template |-> "rag", context |-> format_context(docs),
                      question |-> query]]

\* generate_conversational_response, lines 186-216.
generate_conversational_response(query, docs, conversation_history, llm) ==
    IF ~TruthySeq(docs)
    THEN [val |-> GeneratorSentinel, calls |-> <<>>, prompt |-> NoPrompt]
    ELSE [val |-> IF llm.ok THEN llm.text
                  ELSE "An error occurred while generating the response: " \o llm.text,
          calls |-> IF llm.ok THEN <<"llm.invoke">> ELSE <<"llm.invoke", "raise">>,
          prompt |-> [template |-> "conversational", context |-> format_context(docs),
                      question |-> query,
                      conversation_history |-> conversation_history]]

\* A generate_financial_summary without the guard of lines 228-229.
GenerateFinancialSummaryNoGuard(docs, llm) ==
    [val |-> llm.text, calls |-> <<"llm.invoke">>, prompt |-> NoPrompt]

\* generate_financial_summary, lines 228-250.
generate_financial_summary(docs, llm) ==
    IF ~TruthySeq(docs)
    THEN [val |-> SummarySentinel, calls |-> <<>>, prompt |-> NoPrompt]
    ELSE [val |-> IF llm.ok THEN llm.text
                  ELSE "An error occurred while generating the financial summary: "
                       \o llm.text,
          calls |-> IF llm.ok THEN <<"llm.invoke">> ELSE <<"llm.invoke", "raise">>,
          prompt |-> [template |-> "summary", context |-> format_context(docs)]]

(***************************************************************************)
(* Strings.                                                                *)
(***************************************************************************)
LowerChar(c) ==
    CASE c = "A" -> "a" [] c = "B" -> "b" [] c = "C" -> "c" [] c = "D" -> "d"
      [] c = "E" -> "e" [] c = "F" -> "f" [] c = "G" -> "g" [] c = "H" -> "h"
      [] c = "I" -> "i" [] c = "J" -> "j" [] c = "K" -> "k" [] c = "L" -> "l"
      [] c = "M" -> "m" [] c = "N" -> "n" [] c = "O" -> "o" [] c = "P" -> "p"
      [] c = "Q" -> "q" [] c = "R" -> "r" [] c = "S" -> "s" [] c = "T" -> "t"
      [] c = "U" -> "u" [] c = "V" -> "v" [] c = "W" -> "w" [] c = "X" -> "x"
      [] c = "Y" -> "y" [] c = "Z" -> "z" [] OTHER -> c

RECURSIVE Lower(_)
\* str.lower()
Lower(s) ==
    IF Len(s) = 0 THEN ""
    ELSE LowerChar(SubSeq(s, 1, 1)) \o Lower(SubSeq(s, 2, Len(s)))

\* sub in s
Contains(s, sub) ==
    \E i \in 1..(Len(s) - Len(sub) + 1) : SubSeq(s, i, i + Len(sub) - 1) = sub

\* s.endswith(suffix)
EndsWith(s, suffix) ==
    Len(s) >= Len(suffix) /\ SubSeq(s, Len(s) - Len(suffix) + 1, Len(s)) = suffix

(***************************************************************************)
(* The file system and the PDF loader (external).                          *)
(***************************************************************************)
\* The directory_path values ingestion is called with: a path that does not
\* exist, a path that is a plain file, a directory without PDF files and a
\* directory with one.
Dirs == {"missing", "report.txt", "empty", "docs"}
PathExists(path) == path # "missing"
IsDirectory(path) == path \in {"empty", "docs", "reports"}
\* os.listdir(path)
Listing(path) ==
    IF path = "docs" THEN <<"a.pdf", "notes.txt">>
    ELSE IF path = "reports" THEN <<"a.pdf", "notes.txt", "b.PDF", "c.pdf">>
    ELSE <<"notes.txt">>

\* The chunks the loader and the splitter produce for one PDF file, the
\* file name already written to metadata["source"] (lines 53-61).
FileText(pdf_file) == IF pdf_file = "a.pdf" THEN "Revenue 2022" ELSE "Board met in 2021"
SplitChunks(pdf_file) ==
    <<[page_content |-> FileText(pdf_file),
       metadata |-> [page |-> 0, source |-> pdf_file, start_index |-> 0]]>>
    \o (IF pdf_file = "c.pdf"
        THEN <<[page_content |-> "No year",
                metadata |-> [page |-> 1, source |-> pdf_file, start_index |-> 0]]>>
        ELSE <<>>)

(***************************************************************************)
(* DocumentProcessor  (src/src/document_loader.py)                         *)
(***************************************************************************)
IsPdfName(f) == EndsWith(Lower(f), ".pdf")

RECURSIVE CollectChunksAbort(_, _)
\* A loop that gives up at the first file that fails.
CollectChunksAbort(pdf_files, failing) ==
    IF Len(pdf_files) = 0 \/ Head(pdf_files) \in failing THEN <<>>
    ELSE SplitChunks(Head(pdf_files)) \o CollectChunksAbort(Tail(pdf_files), failing)

RECURSIVE CollectChunks(_, _)
\* The for loop of lines 49-69; failing is the set of files whose loading
\* or splitting raises.
CollectChunks(pdf_files, failing) ==
    IF Len(pdf_files) = 0 THEN <<>>
    ELSE (IF Head(pdf_files) \in failing THEN <<>> ELSE SplitChunks(Head(pdf_files)))
         \o CollectChunks(Tail(pdf_files), failing)

\* load_and_split_pdfs.  raised: os.listdir (line 38) is outside every try.
load_and_split_pdfs(directory_path, failing) ==
    IF ~PathExists(directory_path) THEN [chunks |-> <<>>, raised |-> FALSE]
    ELSE IF ~IsDirectory(directory_path) THEN [chunks |-> <<>>, raised |-> TRUE]
    ELSE LET pdf_files == SelectSeq(Listing(directory_path), IsPdfName)
         IN  IF ~TruthySeq(pdf_files) THEN [chunks |-> <<>>, raised |-> FALSE]
             ELSE [chunks |-> CollectChunks(pdf_files, failing), raised |-> FALSE]

financial_keywords ==
    <<"financial statement", "balance sheet", "income statement",
      "cash flow", "revenue", "profit", "loss", "assets", "liabilities",
      "shareholder", "dividend", "fiscal year", "quarterly report",
      "annual report", "financial performance", "financial results">>

YearFrom == 2000
YearTo == 2030

RECURSIVE YearsInThroughYearTo(_, _)
\* A year scan that also takes the year the range stops at.
YearsInThroughYearTo(text, year) ==
    IF year > YearTo THEN <<>>
    ELSE (IF Contains(text, ToString(year)) THEN <<year>> ELSE <<>>)
         \o YearsInThroughYearTo(text, year + 1)

RECURSIVE YearsIn(_, _)
\* for year in range(2000, 2030): if str(year) in text: years.append(year)
YearsIn(text, year) ==
    IF year >= YearTo THEN <<>>
    ELSE (IF Contains(text, ToString(year)) THEN <<year>> ELSE <<>>)
         \o YearsIn(text, year + 1)

\* `"metadata" in chunk` for a chunk object: the chunk is a langchain
\* Document, whose membership test iterates over (field, value) pairs, so
\* no string is ever `in` it.
ChunkHasKey(chunk, key) == FALSE

\* The loop body of extract_annual_report_metadata, lines 96-115.
AnnotateChunk(chunk) ==
    LET text == chunk.page_content
        contains_financial_info ==
            \E i \in 1..Len(financial_keywords) : Contains(Lower(text), financial_keywords[i])
        md0 == IF ~ChunkHasKey(chunk, "metadata") THEN EmptyDict ELSE chunk.metadata
        md1 == DictPut(md0, "contains_financial_info", contains_financial_info)
        years == YearsIn(text, YearFrom)
        md2 == IF TruthySeq(years) THEN DictPut(md1, "years_mentioned", years) ELSE md1
    IN  [chunk EXCEPT !.metadata = md2]

extract_annual_report_metadata(document_chunks) ==
    [i \in 1..Len(document_chunks) |-> AnnotateChunk(document_chunks[i])]

\* The chunk objects handed to extract_annual_report_metadata, as their
\* caller sees them once the call returned: the loop assigns to the metadata
\* of the objects themselves (101, 103, 113) and returns those objects (115).
GivenChunksAfter(document_chunks) ==
    [i \in 1..Len(document_chunks) |-> AnnotateChunk(document_chunks[i])]

(***************************************************************************)
(* EmbeddingsGenerator  (src/src/embeddings_generator.py)                  *)
(***************************************************************************)
\* The vector the embedding provider computes for a text.
Embedding(text) == "vec:" \o text

default_batch_size == 32

RECURSIVE EmbedBatches(_, _, _, _)
\* The for loop of lines 61-82 from chunk offset i (0-based), batch number b.
\* outs[b] is what embed_documents does for batch b: -1 when it raises, else
\* the number of vectors it returns.  Pairs are appended one by one, so a
\* short answer raises IndexError only after the pairs before it were kept.
EmbedBatches(document_chunks, batch_size, outs, i) ==
    IF i >= Len(document_chunks) THEN <<>>
    ELSE LET batch == SubSeq(document_chunks, i + 1,
                             Min(i + batch_size, Len(document_chunks)))
             got == outs[(i \div batch_size) + 1]
             kept == IF got < 0 THEN 0 ELSE Min(got, Len(batch))
         IN  [j \in 1..kept |->
                [document |-> batch[j], embedding |-> Embedding(batch[j].page_content)]]
             \o EmbedBatches(document_chunks, batch_size, outs, i + batch_size)

generate_embeddings(document_chunks, batch_size, outs) ==
    IF ~TruthySeq(document_chunks) THEN <<>>
    ELSE EmbedBatches(document_chunks, batch_size, outs, 0)

\* Number of batches generate_embeddings makes.
NumBatches(n, batch_size) == (n + batch_size - 1) \div batch_size

\* What the embedding provider may do for the batches of one call.
BatchOutcomes(n, batch_size) ==
    [1..NumBatches(n, batch_size) -> (-1)..Min(n, batch_size)]

(***************************************************************************)
(* VectorStore  (src/src/vector_store.py)                                  *)
(***************************************************************************)
\* self.collection_name, and a collection of some other application.
collection_name == "company_reports"
CollectionNames == {collection_name, "other"}

\* The three create_payload_index calls of lines 79-95, in order.
payload_indexes ==
    <<[field_name |-> "metadata.source", field_schema |-> "keyword"],
      [field_name |-> "metadata.contains_financial_info", field_schema |-> "bool"],
      [field_name |-> "metadata.years_mentioned", field_schema |-> "integer"]>>

\* The database's create_collection and create_payload_index.
CreateCollection(s, name) == [s EXCEPT !.collections = @ \cup {name}]
CreatePayloadIndex(s, name, index) ==
    [s EXCEPT !.indexes = @ \cup {<<name, index.field_name, index.field_schema>>}]

\* A database without collections, and the one a successful construction of
\* VectorStore leaves.
EmptySchema == [collections |-> {}, indexes |-> {}]
CreatedSchema ==
    CreatePayloadIndex(
        CreatePayloadIndex(
            CreatePayloadIndex(CreateCollection(EmptySchema, collection_name),
                               collection_name, payload_indexes[1]),
            collection_name, payload_indexes[2]),
        collection_name, payload_indexes[3])

RECURSIVE CreateIndexes(_, _, _)
\* The create_payload_index calls from the i-th on; fail_at is the number of
\* the database call that raises (0: none; create_collection is call 2, the
\* indexes are calls 3 to 5).
CreateIndexes(s, i, fail_at) ==
    IF i > Len(payload_indexes)
    THEN [schema |-> s, calls |-> <<>>, exc |-> FALSE]
    ELSE IF fail_at = i + 2
    THEN [schema |-> s, calls |-> <<"client.create_payload_index", "raise">>, exc |-> TRUE]
    ELSE LET rest == CreateIndexes(CreatePayloadIndex(s, collection_name, payload_indexes[i]),
                                   i + 1, fail_at)
         IN  [rest EXCEPT !.calls = <<"client.create_payload_index">> \o @]

\* The creation of lines 70-95, made whether or not the collection exists.
CreateCollectionAlways(s, fail_at) ==
    LET r == CreateIndexes(CreateCollection(s, collection_name), 1, fail_at)
    IN  [schema |-> r.schema, raised |-> r.exc,
         calls |-> <<"client.get_collections", "client.create_collection">> \o r.calls]

\* _create_collection_if_not_exists, lines 61-103: every exception is logged
\* and raised again.
create_collection_if_not_exists(s, fail_at) ==
    IF fail_at = 1
    THEN [schema |-> s, raised |-> TRUE,
          calls |-> <<"client.get_collections", "raise", "logging.error">>]
    ELSE IF collection_name \notin s.collections
    THEN IF fail_at = 2
         THEN [schema |-> s, raised |-> TRUE,
               calls |-> <<"client.get_collections", "client.create_collection",
                           "raise", "logging.error">>]
         ELSE LET r == CreateIndexes(CreateCollection(s, collection_name), 1, fail_at)
              IN  [schema |-> r.schema, raised |-> r.exc,
                   calls |-> <<"client.get_collections", "client.create_collection">>
                             \o r.calls
                             \o (IF r.exc THEN <<"logging.error">> ELSE <<>>)]
    ELSE [schema |-> s, raised |-> FALSE, calls |-> <<"client.get_collections">>]

\* Which database call of one _create_collection_if_not_exists raises.
CreateOutcomes == 0..(Len(payload_indexes) + 2)

\* An identifier taken from the chunk's position, the same in every call.
ReusedId(db, i) == i

\* str(uuid.uuid4()): an identifier no stored record has.
FreshId(db, i) == Len(db) + i

RECURSIVE Upsert(_, _)
\* The database's upsert: a point replaces the record with its id, or is added.
Upsert(db, points) ==
    IF Len(points) = 0 THEN db
    ELSE LET p == Head(points)
             at == {i \in 1..Len(db) : db[i].id = p.id}
         IN  Upsert(IF at = {} THEN Append(db, p)
                    ELSE [i \in 1..Len(db) |-> IF i \in at THEN p ELSE db[i]],
                    Tail(points))

\* store_embeddings, lines 115-153; upsert_ok: whether client.upsert succeeds.
store_embeddings(db, embedded_chunks, upsert_ok) ==
    IF ~TruthySeq(embedded_chunks)
    THEN [success |-> FALSE, db |-> db, calls |-> <<>>]
    ELSE LET points == [i \in 1..Len(embedded_chunks) |->
                          [id |-> FreshId(db, i),
                           vector |-> embedded_chunks[i].embedding,
                           payload |-> [text |-> embedded_chunks[i].document.page_content,
                                        metadata |-> embedded_chunks[i].document.metadata]]]
         IN  IF upsert_ok
             THEN [success |-> TRUE, db |-> Upsert(db, points), calls |-> <<"client.upsert">>]
             ELSE [success |-> FALSE, db |-> db, calls |-> <<"client.upsert">>]

(***************************************************************************)
(* RAGApplication  (src/src/rag_app.py)                                    *)
(***************************************************************************)
NoDocumentsMsg == "No relevant documents found to answer your query."
QueryErrorMsg(e) == "An error occurred while processing your query: " \o e
SummaryErrorMsg(e) == "An error occurred while generating the financial summary: " \o e
NoFinancialMsg(year) ==
    "No financial information found"
    \o (IF TruthyInt(year) THEN " for " \o ToString(year[1]) ELSE "") \o "."

NoArg == [op |-> "none"]
NoRet == [kind |-> "none"]
StrRet(s) == [kind |-> "str", val |-> s]
BoolRet(b) == [kind |-> "bool", val |-> b]
NoHistory == [set |-> FALSE, val |-> ""]
History(s) == [set |-> TRUE, val |-> s]

\* The inputs the operations are called with.
Queries == {"q1", "q2"}
Ks == 1..MaxK
Years == {None, Some(0), Some(2022)}
CtxSizes == {CtxInt(n) : n \in 0..MaxCtx} \cup {CtxStr}

Idle(t) == pc[t] = "idle"

\* A branch that never takes the no-documents exit.
AfterRetrievalAlwaysGenerate(docs) == "generating"

\* `if not documents:` of query (122), chat (172) and financial_summary (231).
AfterRetrieval(docs) == IF ~TruthySeq(docs) THEN "noresults" ELSE "generating"

\* self.conversation_memory = ConversationMemory(max_history=20), with the
\* cap scaled down to MaxHistory.
Init ==
    /\ messages = <<>>
    /\ max_history = MaxHistory
    /\ store = <<>>
    /\ pc = [t \in Threads |-> "idle"]
    /\ arg = [t \in Threads |-> NoArg]
    /\ chunks = [t \in Threads |-> <<>>]
    /\ documents = [t \in Threads |-> <<>>]
    /\ history = [t \in Threads |-> NoHistory]
    /\ ret = [t \in Threads |-> NoRet]
    /\ raised = [t \in Threads |-> FALSE]
    /\ log = [t \in Threads |-> <<>>]
    /\ sent = [t \in Threads |-> NotSent]
    /\ prompt = [t \in Threads |-> NoPrompt]
    /\ hits = [t \in Threads |-> <<>>]
    /\ schema = CreatedSchema

\* ---- chat ----

\* chat, lines 158-165: the user message is recorded, then the retriever is
\* called.
ChatStart(t, query_text, k, year, financial_only, ctx) ==
    /\ Idle(t)
    /\ messages' = add_user_message(messages, max_history, query_text)
    /\ pc' = [pc EXCEPT ![t] = "retrieving"]
    /\ arg' = [arg EXCEPT ![t] = [op |-> "chat", query_text |-> query_text, k |-> k,
                                  year |-> year, financial_only |-> financial_only,
                                  conversation_context_size |-> ctx]]
    /\ log' = [log EXCEPT ![t] = <<"memory.add_user_message">>]
    /\ UNCHANGED <<max_history, hits, schema, store, chunks, documents, history, ret, raised,
                   sent, prompt>>

\* An except clause that returns the error string without recording it.
ChatExceptNotRecorded(msgs, cap, e) ==
    [messages |-> msgs, ret |-> StrRet(QueryErrorMsg(e)), raised |-> FALSE]

\* The except clause of chat, lines 192-196: what it leaves in the memory,
\* what chat returns, and whether the exception goes on to the caller.
ChatExcept(msgs, cap, e) ==
    [messages |-> add_assistant_message(msgs, cap, QueryErrorMsg(e)),
     ret |-> StrRet(QueryErrorMsg(e)),
     raised |-> FALSE]

\* An exception e was raised inside chat's try block after `calls`.
ChatFail(t, e, calls) ==
    LET x == ChatExcept(messages, max_history, e)
    IN  /\ messages' = x.messages
        /\ ret' = [ret EXCEPT ![t] = x.ret]
        /\ raised' = [raised EXCEPT ![t] = x.raised]
        /\ pc' = [pc EXCEPT ![t] = "done"]
        /\ log' = [log EXCEPT ![t] = @ \o calls \o <<"memory.add_assistant_message">>]

\* chat, lines 165-172: retriever.retrieve returns.
ChatRetrieve(t) ==
    /\ pc[t] = "retrieving" /\ arg[t].op = "chat"
    /\ \E env \in RetrieveEnvs(store, <<>>, arg[t].year, arg[t].financial_only, arg[t].k) :
         LET r == retrieve(<<>>, arg[t].year, arg[t].financial_only, env)
             calls == <<"retriever.retrieve">> \o r.calls
         IN  /\ sent' = [sent EXCEPT ![t] = r.filter]
             /\ hits' = [hits EXCEPT ![t] = r.hits]
             /\ IF r.raised
                THEN /\ ChatFail(t, "retrieve", calls)
                     /\ UNCHANGED documents
                ELSE /\ documents' = [documents EXCEPT ![t] = r.documents]
                     /\ pc' = [pc EXCEPT ![t] = AfterRetrieval(r.documents)]
                     /\ log' = [log EXCEPT ![t] = @ \o calls]
                     /\ UNCHANGED <<messages, ret, raised>>
    /\ UNCHANGED <<max_history, schema, store, arg, chunks, history, prompt>>

\* A no-documents exit of chat that returns without recording its answer.
ChatNoResultsNotRecorded(t) ==
    /\ pc[t] = "noresults" /\ arg[t].op = "chat"
    /\ ret' = [ret EXCEPT ![t] = StrRet(NoDocumentsMsg)]
    /\ pc' = [pc EXCEPT ![t] = "done"]
    /\ UNCHANGED <<messages, max_history, hits, schema, store, arg, chunks, documents,
                   history, raised, log, sent, prompt>>

\* chat, lines 172-175: no documents.
ChatNoResults(t) ==
    /\ pc[t] = "noresults" /\ arg[t].op = "chat"
    /\ messages' = add_assistant_message(messages, max_history, NoDocumentsMsg)
    /\ ret' = [ret EXCEPT ![t] = StrRet(NoDocumentsMsg)]
    /\ pc' = [pc EXCEPT ![t] = "done"]
    /\ log' = [log EXCEPT ![t] = @ \o <<"memory.add_assistant_message">>]
    /\ UNCHANGED <<max_history, hits, schema, store, arg, chunks, documents, history, raised,
                   sent, prompt>>

\* chat, lines 177-178: the history window is read.
ChatContext(t) ==
    /\ pc[t] = "generating" /\ arg[t].op = "chat" /\ ~history[t].set
    /\ LET h == get_context_string(messages, arg[t].conversation_context_size)
       IN  IF h.ok
           THEN /\ history' = [history EXCEPT ![t] = History(h.val)]
                /\ log' = [log EXCEPT ![t] = @ \o <<"memory.get_context_string">>]
                /\ UNCHANGED <<messages, ret, raised, pc>>
           ELSE /\ ChatFail(t, h.val, <<"memory.get_context_string">>)
                /\ UNCHANGED history
    /\ UNCHANGED <<max_history, hits, schema, store, arg, chunks, documents, sent, prompt>>

\* A chat that returns the generator's answer without recording it.
ChatGenerateNotRecorded(t) ==
    /\ pc[t] = "generating" /\ arg[t].op = "chat" /\ history[t].set
    /\ \E llm \in LlmOutcomes :
         LET g == generate_conversational_response(arg[t].query_text, documents[t],
                                                   history[t].val, llm)
         IN  /\ ret' = [ret EXCEPT ![t] = StrRet(g.val)]
             /\ prompt' = [prompt EXCEPT ![t] = g.prompt]
             /\ log' = [log EXCEPT ![t] =
                          @ \o <<"generator.generate_conversational_response">> \o g.calls]
    /\ pc' = [pc EXCEPT ![t] = "done"]
    /\ UNCHANGED <<messages, max_history, hits, schema, store, arg, chunks, documents,
                   history, raised, sent>>

\* chat, lines 180-190: the conversational generator answers and the answer
\* is recorded.
ChatGenerate(t) ==
    /\ pc[t] = "generating" /\ arg[t].op = "chat" /\ history[t].set
    /\ \E llm \in LlmOutcomes :
         LET g == generate_conversational_response(arg[t].query_text, documents[t],
                                                   history[t].val, llm)
         IN  /\ messages' = add_assistant_message(messages, max_history, g.val)
             /\ ret' = [ret EXCEPT ![t] = StrRet(g.val)]
             /\ prompt' = [prompt EXCEPT ![t] = g.prompt]
             /\ log' = [log EXCEPT ![t] =
                          @ \o <<"generator.generate_conversational_response">> \o g.calls
                            \o <<"memory.add_assistant_message">>]
    /\ pc' = [pc EXCEPT ![t] = "done"]
    /\ UNCHANGED <<max_history, hits, schema, store, arg, chunks, documents, history, raised, sent>>

\* clear_conversation.
ClearConversation(t) ==
    /\ Idle(t)
    /\ messages' = <<>>
    /\ UNCHANGED <<max_history, hits, schema, store, pc, arg, chunks, documents, history, ret,
                   raised, log, sent, prompt>>

\* The operation has returned to its caller; its locals are gone.
Return(t) ==
    /\ pc[t] = "done"
    /\ pc' = [pc EXCEPT ![t] = "idle"]
    /\ arg' = [arg EXCEPT ![t] = NoArg]
    /\ chunks' = [chunks EXCEPT ![t] = <<>>]
    /\ documents' = [documents EXCEPT ![t] = <<>>]
    /\ history' = [history EXCEPT ![t] = NoHistory]
    /\ ret' = [ret EXCEPT ![t] = NoRet]
    /\ raised' = [raised EXCEPT ![t] = FALSE]
    /\ log' = [log EXCEPT ![t] = <<>>]
    /\ sent' = [sent EXCEPT ![t] = NotSent]
    /\ prompt' = [prompt EXCEPT ![t] = NoPrompt]
    /\ hits' = [hits EXCEPT ![t] = <<>>]
    /\ UNCHANGED <<messages, max_history, schema, store>>

\* ---- query ----

\* The except clause of query, lines 133-135.
QueryExcept(e) == [ret |-> StrRet(QueryErrorMsg(e)), raised |-> FALSE]

\* query, lines 111-115: the retriever is called.
QueryStart(t, query_text, k, year, financial_only) ==
    /\ Idle(t)
    /\ pc' = [pc EXCEPT ![t] = "retrieving"]
    /\ arg' = [arg EXCEPT ![t] = [op |-> "query", query_text |-> query_text, k |-> k,
                                  year |-> year, financial_only |-> financial_only]]
    /\ UNCHANGED <<messages, max_history, hits, schema, store, chunks, documents, history, ret,
                   raised, log, sent, prompt>>

\* query, lines 115-122: retriever.retrieve returns.
QueryRetrieve(t) ==
    /\ pc[t] = "retrieving" /\ arg[t].op = "query"
    /\ \E env \in RetrieveEnvs(store, <<>>, arg[t].year, arg[t].financial_only, arg[t].k) :
         LET r == retrieve(<<>>, arg[t].year, arg[t].financial_only, env)
         IN  /\ sent' = [sent EXCEPT ![t] = r.filter]
             /\ hits' = [hits EXCEPT ![t] = r.hits]
             /\ log' = [log EXCEPT ![t] = @ \o <<"retriever.retrieve">> \o r.calls]
             /\ IF r.raised
                THEN /\ ret' = [ret EXCEPT ![t] = QueryExcept("retrieve").ret]
                     /\ raised' = [raised EXCEPT ![t] = QueryExcept("retrieve").raised]
                     /\ pc' = [pc EXCEPT ![t] = "done"]
                     /\ UNCHANGED documents
                ELSE /\ documents' = [documents EXCEPT ![t] = r.documents]
                     /\ pc' = [pc EXCEPT ![t] = AfterRetrieval(r.documents)]
                     /\ UNCHANGED <<ret, raised>>
    /\ UNCHANGED <<messages, max_history, schema, store, arg, chunks, history, prompt>>

\* A no-documents exit of query that records its answer in the memory.
QueryNoResultsRecorded(t) ==
    /\ pc[t] = "noresults" /\ arg[t].op = "query"
    /\ messages' = add_assistant_message(messages, max_history, NoDocumentsMsg)
    /\ ret' = [ret EXCEPT ![t] = StrRet(NoDocumentsMsg)]
    /\ pc' = [pc EXCEPT ![t] = "done"]
    /\ UNCHANGED <<max_history, hits, schema, store, arg, chunks, documents, history,
                   raised, log, sent, prompt>>

\* query, lines 122-123: no documents.
QueryNoResults(t) ==
    /\ pc[t] = "noresults" /\ arg[t].op = "query"
    /\ ret' = [ret EXCEPT ![t] = StrRet(NoDocumentsMsg)]
    /\ pc' = [pc EXCEPT ![t] = "done"]
    /\ UNCHANGED <<messages, max_history, hits, schema, store, arg, chunks, documents, history,
                   raised, log, sent, prompt>>

\* query, lines 125-131: the generator answers.
QueryGenerate(t) ==
    /\ pc[t] = "generating" /\ arg[t].op = "query"
    /\ \E llm \in LlmOutcomes :
         LET g == generate_response(arg[t].query_text, documents[t], llm)
         IN  /\ ret' = [ret EXCEPT ![t] = StrRet(g.val)]
             /\ prompt' = [prompt EXCEPT ![t] = g.prompt]
             /\ log' = [log EXCEPT ![t] = @ \o <<"generator.generate_response">> \o g.calls]
    /\ pc' = [pc EXCEPT ![t] = "done"]
    /\ UNCHANGED <<messages, max_history, hits, schema, store, arg, chunks, documents, history,
                   raised, sent>>

\* ---- financial_summary ----

\* The except clause of financial_summary, lines 239-241.
SummaryExcept(e) == [ret |-> StrRet(SummaryErrorMsg(e)), raised |-> FALSE]

\* financial_summary, lines 223-225: the filter scan is called.
SummaryStart(t, year, k) ==
    /\ Idle(t)
    /\ pc' = [pc EXCEPT ![t] = "retrieving"]
    /\ arg' = [arg EXCEPT ![t] = [op |-> "summary", year |-> year, k |-> k]]
    /\ UNCHANGED <<messages, max_history, hits, schema, store, chunks, documents, history, ret,
                   raised, log, sent, prompt>>

\* A financial_summary that gets its documents from the semantic retrieval.
SummaryScanSemantic(t) ==
    /\ pc[t] = "retrieving" /\ arg[t].op = "summary"
    /\ \E env \in RetrieveEnvs(store, <<>>, arg[t].year, TRUE, arg[t].k) :
         LET r == retrieve(<<>>, arg[t].year, TRUE, env)
         IN  /\ sent' = [sent EXCEPT ![t] = r.filter]
             /\ hits' = [hits EXCEPT ![t] = r.hits]
             /\ log' = [log EXCEPT ![t] = @ \o <<"retriever.retrieve">> \o r.calls]
             /\ documents' = [documents EXCEPT ![t] = r.documents]
             /\ pc' = [pc EXCEPT ![t] = AfterRetrieval(r.documents)]
             /\ UNCHANGED <<ret, raised>>
    /\ UNCHANGED <<messages, max_history, schema, store, arg, chunks, history, prompt>>

\* financial_summary, lines 225-231: search_by_filters(financial_only=True,
\* year=year, limit=k) returns.
SummaryScan(t) ==
    /\ pc[t] = "retrieving" /\ arg[t].op = "summary"
    /\ \E env \in ScrollEnvs(store, TRUE, arg[t].year, "", arg[t].k) :
         LET r == search_by_filters(TRUE, arg[t].year, "", env)
         IN  /\ sent' = [sent EXCEPT ![t] = r.filter]
             /\ hits' = [hits EXCEPT ![t] = r.hits]
             /\ log' = [log EXCEPT ![t] = @ \o <<"retriever.search_by_filters">> \o r.calls]
             /\ IF r.raised
                THEN /\ ret' = [ret EXCEPT ![t] = SummaryExcept("search_by_filters").ret]
                     /\ raised' = [raised EXCEPT ![t] = SummaryExcept("search_by_filters").raised]
                     /\ pc' = [pc EXCEPT ![t] = "done"]
                     /\ UNCHANGED documents
                ELSE /\ documents' = [documents EXCEPT ![t] = r.documents]
                     /\ pc' = [pc EXCEPT ![t] = AfterRetrieval(r.documents)]
                     /\ UNCHANGED <<ret, raised>>
    /\ UNCHANGED <<messages, max_history, schema, store, arg, chunks, history, prompt>>

\* financial_summary, lines 231-232: no documents.
SummaryNoResults(t) ==
    /\ pc[t] = "noresults" /\ arg[t].op = "summary"
    /\ ret' = [ret EXCEPT ![t] = StrRet(NoFinancialMsg(arg[t].year))]
    /\ pc' = [pc EXCEPT ![t] = "done"]
    /\ UNCHANGED <<messages, max_history, hits, schema, store, arg, chunks, documents, history,
                   raised, log, sent, prompt>>

\* financial_summary, lines 234-237: the generator summarises.
SummaryGenerate(t) ==
    /\ pc[t] = "generating" /\ arg[t].op = "summary"
    /\ \E llm \in LlmOutcomes :
         LET g == generate_financial_summary(documents[t], llm)
         IN  /\ ret' = [ret EXCEPT ![t] = StrRet(g.val)]
             /\ prompt' = [prompt EXCEPT ![t] = g.prompt]
             /\ log' = [log EXCEPT ![t] =
                          @ \o <<"generator.generate_financial_summary">> \o g.calls]
    /\ pc' = [pc EXCEPT ![t] = "done"]
    /\ UNCHANGED <<messages, max_history, hits, schema, store, arg, chunks, documents, history,
                   raised, sent>>

\* ---- ingest_documents ----

\* An except clause that logs and lets the exception go on.
IngestExceptReraise == [ret |-> NoRet, raised |-> TRUE]

\* The except clause of ingest_documents, lines 88-90.
IngestExcept == [ret |-> BoolRet(FALSE), raised |-> FALSE]

\* A check of the split result that lets an empty result through.
AfterSplitNoCheck(split_chunks, process_metadata) ==
    IF process_metadata THEN "annotate" ELSE "embed"

\* `if not chunks: return False` (63-65) and `if process_metadata:` (68).
AfterSplit(split_chunks, process_metadata) ==
    IF ~TruthySeq(split_chunks) THEN "done"
    ELSE IF process_metadata THEN "annotate" ELSE "embed"

\* The PDF files a directory may hold.
PdfFiles == {"a.pdf", "b.PDF", "c.pdf"}

\* ingest_documents, lines 57-69: load_and_split_pdfs runs; without chunks
\* the operation returns False.
IngestSplit(t, directory_path, process_metadata) ==
    /\ Idle(t)
    /\ Len(store) < MaxStore
    /\ arg' = [arg EXCEPT ![t] = [op |-> "ingest", directory_path |-> directory_path,
                                  process_metadata |-> process_metadata]]
    /\ log' = [log EXCEPT ![t] = <<"document_processor.load_and_split_pdfs">>]
    /\ \E failing \in SUBSET PdfFiles :
         LET r == load_and_split_pdfs(directory_path, failing)
         IN  IF r.raised
             THEN /\ ret' = [ret EXCEPT ![t] = IngestExcept.ret]
                  /\ raised' = [raised EXCEPT ![t] = IngestExcept.raised]
                  /\ pc' = [pc EXCEPT ![t] = "done"]
                  /\ UNCHANGED chunks
             ELSE IF AfterSplit(r.chunks, process_metadata) = "done"
             THEN /\ ret' = [ret EXCEPT ![t] = BoolRet(FALSE)]
                  /\ pc' = [pc EXCEPT ![t] = "done"]
                  /\ UNCHANGED <<chunks, raised>>
             ELSE /\ chunks' = [chunks EXCEPT ![t] = r.chunks]
                  /\ pc' = [pc EXCEPT ![t] = AfterSplit(r.chunks, process_metadata)]
                  /\ UNCHANGED <<ret, raised>>
    /\ UNCHANGED <<messages, max_history, hits, schema, store, documents, history, sent, prompt>>

\* ingest_documents, lines 67-69: extract_annual_report_metadata runs.
IngestAnnotate(t) ==
    /\ pc[t] = "annotate"
    /\ chunks' = [chunks EXCEPT ![t] = extract_annual_report_metadata(chunks[t])]
    /\ pc' = [pc EXCEPT ![t] = "embed"]
    /\ log' = [log EXCEPT ![t] = @ \o <<"document_processor.extract_annual_report_metadata">>]
    /\ UNCHANGED <<messages, max_history, hits, schema, store, arg, documents, history, ret, raised,
                   sent, prompt>>

\* ingest_documents, lines 71-76: generate_embeddings runs; without embedded
\* chunks the operation returns False.  From here on `chunks` holds the
\* local embedded_chunks; the chunks handed to the stage and what the
\* provider did batch by batch are kept with the arguments.
IngestEmbed(t) ==
    /\ pc[t] = "embed"
    /\ log' = [log EXCEPT ![t] = @ \o <<"embeddings_generator.generate_embeddings">>]
    /\ \E outs \in BatchOutcomes(Len(chunks[t]), default_batch_size) :
         LET embedded_chunks == generate_embeddings(chunks[t], default_batch_size, outs)
         IN  /\ arg' = [arg EXCEPT ![t] =
                          [op |-> "ingest", directory_path |-> @.directory_path,
                           process_metadata |-> @.process_metadata,
                           document_chunks |-> chunks[t], outs |-> outs]]
             /\ IF ~TruthySeq(embedded_chunks)
                THEN /\ ret' = [ret EXCEPT ![t] = BoolRet(FALSE)]
                     /\ pc' = [pc EXCEPT ![t] = "done"]
                     /\ UNCHANGED chunks
                ELSE /\ chunks' = [chunks EXCEPT ![t] = embedded_chunks]
                     /\ pc' = [pc EXCEPT ![t] = "upsert"]
                     /\ UNCHANGED ret
    /\ UNCHANGED <<messages, max_history, hits, schema, store, documents, history, raised,
                   sent, prompt>>

\* ingest_documents, lines 78-86: store_embeddings runs and its result is
\* returned.
IngestUpsert(t) ==
    /\ pc[t] = "upsert"
    /\ \E upsert_ok \in BOOLEAN :
         LET r == store_embeddings(store, chunks[t], upsert_ok)
         IN  /\ store' = r.db
             /\ ret' = [ret EXCEPT ![t] = BoolRet(r.success)]
             /\ log' = [log EXCEPT ![t] = @ \o <<"vector_store.store_embeddings">> \o r.calls]
    /\ pc' = [pc EXCEPT ![t] = "done"]
    /\ UNCHANGED <<messages, max_history, hits, schema, arg, chunks, documents, history, raised,
                   sent, prompt>>

(***************************************************************************)
(* The application used by one caller at a time.                           *)
(***************************************************************************)
Chat(t) ==
    \/ \E q \in Queries, k \in Ks, y \in Years, f \in BOOLEAN, c \in CtxSizes :
         ChatStart(t, q, k, y, f, c)
    \/ ChatRetrieve(t)
    \/ ChatNoResults(t)
    \/ ChatContext(t)
    \/ ChatGenerate(t)

Query(t) ==
    \/ \E q \in Queries, k \in Ks, y \in Years, f \in BOOLEAN : QueryStart(t, q, k, y, f)
    \/ QueryRetrieve(t)
    \/ QueryNoResults(t)
    \/ QueryGenerate(t)

Summary(t) ==
    \/ \E y \in Years, k \in Ks : SummaryStart(t, y, k)
    \/ SummaryScan(t)
    \/ SummaryNoResults(t)
    \/ SummaryGenerate(t)

Ingest(t) ==
    \/ \E d \in Dirs, m \in BOOLEAN : IngestSplit(t, d, m)
    \/ IngestAnnotate(t)
    \/ IngestEmbed(t)
    \/ IngestUpsert(t)

Next ==
    \/ Chat(Main)
    \/ Query(Main)
    \/ Summary(Main)
    \/ Ingest(Main)
    \/ ClearConversation(Main)
    \/ Return(Main)

Spec == Init /\ [][Next]_vars

\* Every step an operation in progress takes once the call it waits for
\* has returned or failed.
Progress(t) ==
    \/ ChatRetrieve(t) \/ ChatNoResults(t) \/ ChatContext(t) \/ ChatGenerate(t)
    \/ QueryRetrieve(t) \/ QueryNoResults(t) \/ QueryGenerate(t)
    \/ SummaryScan(t) \/ SummaryNoResults(t) \/ SummaryGenerate(t)
    \/ IngestAnnotate(t) \/ IngestEmbed(t) \/ IngestUpsert(t)

\* Execution is synchronous: every external call returns or fails, after
\* which the calling operation goes on.
FairSpec == Spec /\ WF_vars(Progress(Main))

(***************************************************************************)
(* Ingestions alone, of directories with one and with several PDF files.   *)
(***************************************************************************)
IngestionNext ==
    \/ \E d \in Dirs \cup {"reports"}, m \in BOOLEAN : IngestSplit(Main, d, m)
    \/ IngestAnnotate(Main)
    \/ IngestEmbed(Main)
    \/ IngestUpsert(Main)
    \/ Return(Main)

IngestionSpec == Init /\ [][IngestionNext]_vars

(***************************************************************************)
(* A ConversationMemory driven directly, with any cap.                     *)
(***************************************************************************)
MemInit ==
    /\ messages = <<>>
    /\ max_history \in 0..MaxHistory
    /\ store = <<>>
    /\ pc = [t \in Threads |-> "idle"]
    /\ arg = [t \in Threads |-> NoArg]
    /\ chunks = [t \in Threads |-> <<>>]
    /\ documents = [t \in Threads |-> <<>>]
    /\ history = [t \in Threads |-> NoHistory]
    /\ ret = [t \in Threads |-> NoRet]
    /\ raised = [t \in Threads |-> FALSE]
    /\ log = [t \in Threads |-> <<>>]
    /\ sent = [t \in Threads |-> NotSent]
    /\ prompt = [t \in Threads |-> NoPrompt]
    /\ hits = [t \in Threads |-> <<>>]
    /\ schema = CreatedSchema

MemAddUser(text) ==
    /\ Idle(Main)
    /\ Len(messages) < MaxMsgs
    /\ messages' = add_user_message(messages, max_history, text)
    /\ UNCHANGED <<max_history, hits, schema, store, pc, arg, chunks, documents, history, ret,
                   raised, log, sent, prompt>>

MemAddAssistant(text) ==
    /\ Idle(Main)
    /\ Len(messages) < MaxMsgs
    /\ messages' = add_assistant_message(messages, max_history, text)
    /\ UNCHANGED <<max_history, hits, schema, store, pc, arg, chunks, documents, history, ret,
                   raised, log, sent, prompt>>

\* clear
MemClear ==
    /\ Idle(Main)
    /\ messages' = <<>>
    /\ UNCHANGED <<max_history, hits, schema, store, pc, arg, chunks, documents, history, ret,
                   raised, log, sent, prompt>>

\* get_context_string(num), from the call to its return.
MemGetContext(num) ==
    /\ Idle(Main)
    /\ arg' = [arg EXCEPT ![Main] = [op |-> "get_context_string", num_messages |-> num]]
    /\ history' = [history EXCEPT ![Main] = History(get_context_string(messages, num).val)]
    /\ pc' = [pc EXCEPT ![Main] = "done"]
    /\ UNCHANGED <<messages, max_history, hits, schema, store, chunks, documents, ret, raised,
                   log, sent, prompt>>

MemNums == {CtxNone} \cup {CtxInt(n) : n \in 0..MaxMsgs}

MemNext ==
    \/ \E text \in Queries : MemAddUser(text)
    \/ \E text \in Queries : MemAddAssistant(text)
    \/ MemClear
    \/ \E num \in MemNums : MemGetContext(num)
    \/ Return(Main)

MemSpec == MemInit /\ [][MemNext]_vars

(***************************************************************************)
(* A Retriever driven directly, over a collection filled earlier.          *)
(***************************************************************************)
\* The collection after the chunks of `files` were stored, annotated or not.
Stored(db, files, process_metadata) ==
    LET split == CollectChunks(files, {})
        cs == IF process_metadata THEN extract_annual_report_metadata(split) ELSE split
        outs == [b \in 1..NumBatches(Len(cs), default_batch_size) |-> Len(cs)]
    IN  store_embeddings(db, generate_embeddings(cs, default_batch_size, outs), TRUE).db

Collections ==
    {<<>>,
     Stored(<<>>, <<"a.pdf">>, TRUE),
     Stored(<<>>, <<"a.pdf", "b.pdf">>, TRUE),
     Stored(Stored(<<>>, <<"a.pdf">>, TRUE), <<"a.pdf", "b.pdf">>, FALSE)}

FilterParams ==
    {<<>>,
     <<<<"metadata.source", "a.pdf">>>>,
     <<<<"metadata.source", "a.pdf">>, <<"metadata.contains_financial_info", TRUE>>>>}

SourceFiles == {"", "a.pdf"}

RetInit ==
    /\ messages = <<>>
    /\ max_history = MaxHistory
    /\ store \in Collections
    /\ pc = [t \in Threads |-> "idle"]
    /\ arg = [t \in Threads |-> NoArg]
    /\ chunks = [t \in Threads |-> <<>>]
    /\ documents = [t \in Threads |-> <<>>]
    /\ history = [t \in Threads |-> NoHistory]
    /\ ret = [t \in Threads |-> NoRet]
    /\ raised = [t \in Threads |-> FALSE]
    /\ log = [t \in Threads |-> <<>>]
    /\ sent = [t \in Threads |-> NotSent]
    /\ prompt = [t \in Threads |-> NoPrompt]
    /\ hits = [t \in Threads |-> <<>>]
    /\ schema = CreatedSchema

\* Retriever.retrieve(query, k, filter_params, year, financial_only), from
\* the call to its return.
RetrieveCall(t, query, k, filter_params, year, financial_only) ==
    /\ Idle(t)
    /\ arg' = [arg EXCEPT ![t] = [op |-> "retrieve", query |-> query, k |-> k,
                                  filter_params |-> filter_params, year |-> year,
                                  financial_only |-> financial_only]]
    /\ \E env \in RetrieveEnvs(store, filter_params, year, financial_only, k) :
         LET r == retrieve(filter_params, year, financial_only, env)
         IN  /\ documents' = [documents EXCEPT ![t] = r.documents]
             /\ raised' = [raised EXCEPT ![t] = r.raised]
             /\ sent' = [sent EXCEPT ![t] = r.filter]
             /\ hits' = [hits EXCEPT ![t] = r.hits]
             /\ log' = [log EXCEPT ![t] = r.calls]
    /\ pc' = [pc EXCEPT ![t] = "done"]
    /\ UNCHANGED <<messages, max_history, schema, store, chunks, history, ret, prompt>>

\* Retriever.search_by_filters(financial_only, year, source_file, limit),
\* from the call to its return.
SearchByFiltersCall(t, financial_only, year, source_file, limit) ==
    /\ Idle(t)
    /\ arg' = [arg EXCEPT ![t] = [op |-> "search_by_filters",
                                  financial_only |-> financial_only, year |-> year,
                                  source_file |-> source_file, limit |-> limit]]
    /\ \E env \in ScrollEnvs(store, financial_only, year, source_file, limit) :
         LET r == search_by_filters(financial_only, year, source_file, env)
         IN  /\ documents' = [documents EXCEPT ![t] = r.documents]
             /\ raised' = [raised EXCEPT ![t] = r.raised]
             /\ sent' = [sent EXCEPT ![t] = r.filter]
             /\ hits' = [hits EXCEPT ![t] = r.hits]
             /\ log' = [log EXCEPT ![t] = r.calls]
    /\ pc' = [pc EXCEPT ![t] = "done"]
    /\ UNCHANGED <<messages, max_history, schema, store, chunks, history, ret, prompt>>

RetNext ==
    \/ \E q \in Queries, k \in Ks, p \in FilterParams, y \in Years, f \in BOOLEAN :
         RetrieveCall(Main, q, k, p, y, f)
    \/ \E f \in BOOLEAN, y \in Years, s \in SourceFiles, k \in Ks :
         SearchByFiltersCall(Main, f, y, s, k)
    \/ Return(Main)

RetrieverSpec == RetInit /\ [][RetNext]_vars

(***************************************************************************)
(* The Generator alone, called with document lists a retriever may return. *)
(***************************************************************************)
\* Documents of the fullest collection, as search_by_filters maps them.
DocPool ==
    LET db == Stored(Stored(<<>>, <<"a.pdf">>, TRUE), <<"a.pdf", "b.pdf">>, FALSE)
    IN  {Document(db[i].payload, 1) : i \in 1..Len(db)}
\* Lists of at most MaxK of them, the empty list included.
DocLists == UNION {[1..n -> DocPool] : n \in 0..MaxK}
Histories == {"", "User: q1"}

GenInit ==
    /\ messages = <<>>
    /\ max_history = MaxHistory
    /\ store = <<>>
    /\ pc = [t \in Threads |-> "idle"]
    /\ arg = [t \in Threads |-> NoArg]
    /\ chunks = [t \in Threads |-> <<>>]
    /\ documents = [t \in Threads |-> <<>>]
    /\ history = [t \in Threads |-> NoHistory]
    /\ ret = [t \in Threads |-> NoRet]
    /\ raised = [t \in Threads |-> FALSE]
    /\ log = [t \in Threads |-> <<>>]
    /\ sent = [t \in Threads |-> NotSent]
    /\ prompt = [t \in Threads |-> NoPrompt]
    /\ hits = [t \in Threads |-> <<>>]
    /\ schema = CreatedSchema

\* Generator.generate_response(query, documents), from the call to its return.
GenerateResponseCall(t, query, docs) ==
    /\ Idle(t)
    /\ arg' = [arg EXCEPT ![t] = [op |-> "generate_response", query |-> query]]
    /\ documents' = [documents EXCEPT ![t] = docs]
    /\ \E llm \in LlmOutcomes :
         LET g == generate_response(query, docs, llm)
         IN  /\ ret' = [ret EXCEPT ![t] = StrRet(g.val)]
             /\ prompt' = [prompt EXCEPT ![t] = g.prompt]
             /\ log' = [log EXCEPT ![t] = g.calls]
    /\ pc' = [pc EXCEPT ![t] = "done"]
    /\ UNCHANGED <<messages, max_history, hits, schema, store, chunks, history, raised, sent>>

\* Generator.generate_conversational_response(query, documents,
\* conversation_history), from the call to its return.
GenerateConversationalCall(t, query, docs, conversation_history) ==
    /\ Idle(t)
    /\ arg' = [arg EXCEPT ![t] = [op |-> "generate_conversational_response",
                                  query |-> query]]
    /\ documents' = [documents EXCEPT ![t] = docs]
    /\ history' = [history EXCEPT ![t] = History(conversation_history)]
    /\ \E llm \in LlmOutcomes :
         LET g == generate_conversational_response(query, docs, conversation_history, llm)
         IN  /\ ret' = [ret EXCEPT ![t] = StrRet(g.val)]
             /\ prompt' = [prompt EXCEPT ![t] = g.prompt]
             /\ log' = [log EXCEPT ![t] = g.calls]
    /\ pc' = [pc EXCEPT ![t] = "done"]
    /\ UNCHANGED <<messages, max_history, hits, schema, store, chunks, raised, sent>>

\* Generator.generate_financial_summary(documents), from the call to its
\* return.
GenerateSummaryCall(t, docs) ==
    /\ Idle(t)
    /\ arg' = [arg EXCEPT ![t] = [op |-> "generate_financial_summary"]]
    /\ documents' = [documents EXCEPT ![t] = docs]
    /\ \E llm \in LlmOutcomes :
         LET g == generate_financial_summary(docs, llm)
         IN  /\ ret' = [ret EXCEPT ![t] = StrRet(g.val)]
             /\ prompt' = [prompt EXCEPT ![t] = g.prompt]
             /\ log' = [log EXCEPT ![t] = g.calls]
    /\ pc' = [pc EXCEPT ![t] = "done"]
    /\ UNCHANGED <<messages, max_history, hits, schema, store, chunks, history, raised, sent>>

GenNext ==
    \/ \E q \in Queries, d \in DocLists : GenerateResponseCall(Main, q, d)
    \/ \E q \in Queries, d \in DocLists, h \in Histories :
         GenerateConversationalCall(Main, q, d, h)
    \/ \E d \in DocLists : GenerateSummaryCall(Main, d)
    \/ Return(Main)

GeneratorSpec == GenInit /\ [][GenNext]_vars

(***************************************************************************)
(* The EmbeddingsGenerator alone.                                          *)
(***************************************************************************)
ChunkPool == {SplitChunks("a.pdf")[1], SplitChunks("b.pdf")[1]}
ChunkLists == UNION {[1..n -> ChunkPool] : n \in 0..MaxChunks}
BatchSizes == {1, 2, default_batch_size}

\* EmbeddingsGenerator.generate_embeddings(document_chunks, batch_size), from
\* the call to its return; outs is what the provider does batch by batch.
GenerateEmbeddingsCall(t, document_chunks, batch_size, outs) ==
    /\ Idle(t)
    /\ arg' = [arg EXCEPT ![t] = [op |-> "generate_embeddings",
                                  document_chunks |-> document_chunks,
                                  batch_size |-> batch_size, outs |-> outs]]
    /\ chunks' = [chunks EXCEPT ![t] = generate_embeddings(document_chunks, batch_size, outs)]
    /\ log' = [log EXCEPT ![t] = <<"embeddings_generator.generate_embeddings">>]
    /\ pc' = [pc EXCEPT ![t] = "done"]
    /\ UNCHANGED <<messages, max_history, hits, schema, store, documents, history, ret,
                   raised, sent, prompt>>

EmbedNext ==
    \/ \E c \in ChunkLists, b \in BatchSizes :
         \E outs \in BatchOutcomes(Len(c), b) : GenerateEmbeddingsCall(Main, c, b, outs)
    \/ Return(Main)

EmbedSpec == GenInit /\ [][EmbedNext]_vars

(***************************************************************************)
(* The VectorStore alone, over a database that may already hold            *)
(* collections.                                                            *)
(***************************************************************************)
Schemas ==
    {EmptySchema,
     CreateCollection(EmptySchema, "other"),
     CreateCollection(EmptySchema, collection_name),
     CreatedSchema}

\* The lists generate_embeddings returns when every batch succeeds.
EmbeddedLists ==
    {generate_embeddings(c, default_batch_size,
                         [b \in 1..NumBatches(Len(c), default_batch_size) |-> Len(c)]) :
        c \in ChunkLists}

VsInit ==
    /\ messages = <<>>
    /\ max_history = MaxHistory
    /\ store = <<>>
    /\ pc = [t \in Threads |-> "idle"]
    /\ arg = [t \in Threads |-> NoArg]
    /\ chunks = [t \in Threads |-> <<>>]
    /\ documents = [t \in Threads |-> <<>>]
    /\ history = [t \in Threads |-> NoHistory]
    /\ ret = [t \in Threads |-> NoRet]
    /\ raised = [t \in Threads |-> FALSE]
    /\ log = [t \in Threads |-> <<>>]
    /\ sent = [t \in Threads |-> NotSent]
    /\ prompt = [t \in Threads |-> NoPrompt]
    /\ hits = [t \in Threads |-> <<>>]
    /\ schema \in Schemas

\* VectorStore._create_collection_if_not_exists(), from the call to its
\* return or to the exception leaving it.
CreateCollectionCall(t, fail_at) ==
    /\ Idle(t)
    /\ arg' = [arg EXCEPT ![t] = [op |-> "create_collection_if_not_exists"]]
    /\ LET r == create_collection_if_not_exists(schema, fail_at)
       IN  /\ schema' = r.schema
           /\ raised' = [raised EXCEPT ![t] = r.raised]
           /\ log' = [log EXCEPT ![t] = r.calls]
    /\ pc' = [pc EXCEPT ![t] = "done"]
    /\ UNCHANGED <<messages, max_history, hits, store, chunks, documents, history, ret,
                   sent, prompt>>

\* VectorStore.store_embeddings(embedded_chunks), from the call to its
\* return.  An upsert into a collection that does not exist fails.
StoreEmbeddingsCall(t, embedded_chunks, upsert_ok) ==
    /\ Idle(t)
    /\ Len(store) + Len(embedded_chunks) <= MaxRecords
    /\ upsert_ok => collection_name \in schema.collections
    /\ arg' = [arg EXCEPT ![t] = [op |-> "store_embeddings",
                                  embedded_chunks |-> embedded_chunks]]
    /\ LET r == store_embeddings(store, embedded_chunks, upsert_ok)
       IN  /\ store' = r.db
           /\ ret' = [ret EXCEPT ![t] = BoolRet(r.success)]
           /\ log' = [log EXCEPT ![t] = r.calls]
    /\ pc' = [pc EXCEPT ![t] = "done"]
    /\ UNCHANGED <<messages, max_history, hits, schema, chunks, documents, history, raised,
                   sent, prompt>>

VsNext ==
    \/ \E f \in CreateOutcomes : CreateCollectionCall(Main, f)
    \/ \E e \in EmbeddedLists, ok \in BOOLEAN : StoreEmbeddingsCall(Main, e, ok)
    \/ Return(Main)

VectorStoreSpec == VsInit /\ [][VsNext]_vars

\* VectorStore objects constructed one after the other against a database
\* that starts without collections.
ConstructionInit ==
    /\ messages = <<>>
    /\ max_history = MaxHistory
    /\ store = <<>>
    /\ pc = [t \in Threads |-> "idle"]
    /\ arg = [t \in Threads |-> NoArg]
    /\ chunks = [t \in Threads |-> <<>>]
    /\ documents = [t \in Threads |-> <<>>]
    /\ history = [t \in Threads |-> NoHistory]
    /\ ret = [t \in Threads |-> NoRet]
    /\ raised = [t \in Threads |-> FALSE]
    /\ log = [t \in Threads |-> <<>>]
    /\ sent = [t \in Threads |-> NotSent]
    /\ prompt = [t \in Threads |-> NoPrompt]
    /\ hits = [t \in Threads |-> <<>>]
    /\ schema = EmptySchema

ConstructionSpec == ConstructionInit /\ [][VsNext]_vars

(***************************************************************************)
(* The DocumentProcessor alone.                                            *)
(***************************************************************************)
\* Chunk texts with one year, with the first and the last year of the
\* range, with the year the range stops at, and without a year.
ChunkTexts ==
    {"Revenue 2022", "Board met in 2021", "From 2029 back to 2000", "Outlook 2030",
     "No year"}
TextChunks ==
    {[page_content |-> x, metadata |-> [page |-> 0, source |-> "a.pdf", start_index |-> 0]] :
        x \in ChunkTexts}
TextChunkLists == UNION {[1..n -> TextChunks] : n \in 0..MaxChunks}
\* The directories the loader is called with, one of them with three PDF
\* files.
LoaderDirs == Dirs \cup {"reports"}

\* DocumentProcessor.load_and_split_pdfs(directory_path), from the call to
\* its return or to the exception leaving it.
LoadAndSplitCall(t, directory_path, failing) ==
    /\ Idle(t)
    /\ arg' = [arg EXCEPT ![t] = [op |-> "load_and_split_pdfs",
                                  directory_path |-> directory_path,
                                  failing |-> failing]]
    /\ LET r == load_and_split_pdfs(directory_path, failing)
       IN  /\ chunks' = [chunks EXCEPT ![t] = r.chunks]
           /\ raised' = [raised EXCEPT ![t] = r.raised]
    /\ log' = [log EXCEPT ![t] = <<"document_processor.load_and_split_pdfs">>]
    /\ pc' = [pc EXCEPT ![t] = "done"]
    /\ UNCHANGED <<messages, max_history, hits, schema, store, documents, history, ret,
                   sent, prompt>>

\* DocumentProcessor.extract_annual_report_metadata(document_chunks), from
\* the call to its return.
ExtractMetadataCall(t, document_chunks) ==
    /\ Idle(t)
    /\ arg' = [arg EXCEPT ![t] = [op |-> "extract_annual_report_metadata",
                                  document_chunks |-> document_chunks,
                                  given |-> GivenChunksAfter(document_chunks)]]
    /\ chunks' = [chunks EXCEPT ![t] = extract_annual_report_metadata(document_chunks)]
    /\ log' = [log EXCEPT ![t] = <<"document_processor.extract_annual_report_metadata">>]
    /\ pc' = [pc EXCEPT ![t] = "done"]
    /\ UNCHANGED <<messages, max_history, hits, schema, store, documents, history, ret,
                   raised, sent, prompt>>

\* The caller hands the chunks the pass returned to the pass a second time.
ExtractMetadataAgain(t) ==
    /\ pc[t] = "done" /\ arg[t].op = "extract_annual_report_metadata"
    /\ Len(log[t]) = 1
    /\ arg' = [arg EXCEPT ![t] = [op |-> "extract_annual_report_metadata",
                                  document_chunks |-> chunks[t],
                                  given |-> GivenChunksAfter(chunks[t])]]
    /\ chunks' = [chunks EXCEPT ![t] = extract_annual_report_metadata(chunks[t])]
    /\ log' = [log EXCEPT ![t] = @ \o <<"document_processor.extract_annual_report_metadata">>]
    /\ UNCHANGED <<messages, max_history, hits, schema, store, pc, documents, history, ret,
                   raised, sent, prompt>>

LoaderNext ==
    \/ \E d \in LoaderDirs, failing \in SUBSET PdfFiles :
         LoadAndSplitCall(Main, d, failing)
    \/ \E c \in TextChunkLists : ExtractMetadataCall(Main, c)
    \/ ExtractMetadataAgain(Main)
    \/ Return(Main)

LoaderSpec == GenInit /\ [][LoaderNext]_vars

(***************************************************************************)
(* The interactions of an application whose collection is already filled:  *)
(* query, chat and clear_conversation, each call running to its return.    *)
(***************************************************************************)
InteractionInit ==
    /\ messages = <<>>
    /\ max_history = MaxHistory
    /\ store \in Collections
    /\ pc = [t \in Threads |-> "idle"]
    /\ arg = [t \in Threads |-> NoArg]
    /\ chunks = [t \in Threads |-> <<>>]
    /\ documents = [t \in Threads |-> <<>>]
    /\ history = [t \in Threads |-> NoHistory]
    /\ ret = [t \in Threads |-> NoRet]
    /\ raised = [t \in Threads |-> FALSE]
    /\ log = [t \in Threads |-> <<>>]
    /\ sent = [t \in Threads |-> NotSent]
    /\ prompt = [t \in Threads |-> NoPrompt]
    /\ hits = [t \in Threads |-> <<>>]
    /\ schema = CreatedSchema

InteractionNext ==
    \/ Chat(Main)
    \/ Query(Main)
    \/ ClearConversation(Main)
    \/ Return(Main)

InteractionSpec ==
    InteractionInit /\ [][InteractionNext]_vars /\ WF_vars(Progress(Main))

(***************************************************************************)
(* One application instance shared by two callers (the instance            *)
(* get_rag_application caches for every session): their chat and           *)
(* clear_conversation calls interleave step by step, without a lock.       *)
(***************************************************************************)
ConcurrentInit ==
    /\ messages = <<>>
    /\ max_history = MaxHistory
    /\ store \in {<<>>, Stored(<<>>, <<"a.pdf">>, TRUE)}
    /\ pc = [t \in Threads |-> "idle"]
    /\ arg = [t \in Threads |-> NoArg]
    /\ chunks = [t \in Threads |-> <<>>]
    /\ documents = [t \in Threads |-> <<>>]
    /\ history = [t \in Threads |-> NoHistory]
    /\ ret = [t \in Threads |-> NoRet]
    /\ raised = [t \in Threads |-> FALSE]
    /\ log = [t \in Threads |-> <<>>]
    /\ sent = [t \in Threads |-> NotSent]
    /\ prompt = [t \in Threads |-> NoPrompt]
    /\ hits = [t \in Threads |-> <<>>]
    /\ schema = CreatedSchema

\* A chat of caller t with the default retrieval arguments.
PlainChat(t) ==
    \/ \E q \in Queries, n \in 1..MaxCtx : ChatStart(t, q, 1, None, FALSE, CtxInt(n))
    \/ ChatRetrieve(t)
    \/ ChatNoResults(t)
    \/ ChatContext(t)
    \/ ChatGenerate(t)

ConcurrentNext ==
    \E t \in Threads :
        \/ PlainChat(t)
        \/ ClearConversation(t)
        \/ Return(t)

ConcurrentSpec == ConcurrentInit /\ [][ConcurrentNext]_vars

(***************************************************************************)
(* One caller, one call after the other: chat and clear_conversation on an *)
(* application whose history cap is even (it is 20).                       *)
(***************************************************************************)
ConversationInit ==
    /\ messages = <<>>
    /\ max_history \in {2 * p : p \in 1..MaxPairs}
    /\ store \in {<<>>, Stored(<<>>, <<"a.pdf">>, TRUE)}
    /\ pc = [t \in Threads |-> "idle"]
    /\ arg = [t \in Threads |-> NoArg]
    /\ chunks = [t \in Threads |-> <<>>]
    /\ documents = [t \in Threads |-> <<>>]
    /\ history = [t \in Threads |-> NoHistory]
    /\ ret = [t \in Threads |-> NoRet]
    /\ raised = [t \in Threads |-> FALSE]
    /\ log = [t \in Threads |-> <<>>]
    /\ sent = [t \in Threads |-> NotSent]
    /\ prompt = [t \in Threads |-> NoPrompt]
    /\ hits = [t \in Threads |-> <<>>]
    /\ schema = CreatedSchema

ConversationNext ==
    \/ PlainChat(Main)
    \/ ClearConversation(Main)
    \/ Return(Main)

ConversationSpec == ConversationInit /\ [][ConversationNext]_vars

(***************************************************************************)
(* Properties.                                                             *)
(***************************************************************************)
InLog(t, name) == \E i \in 1..Len(log[t]) : log[t][i] = name
CountInLog(t, names) == Cardinality({i \in 1..Len(log[t]) : log[t][i] \in names})
MemoryWrites == {"memory.add_user_message", "memory.add_assistant_message"}
GeneratorCalls ==
    {"generator.generate_response", "generator.generate_conversational_response",
     "generator.generate_financial_summary", "llm.invoke"}
\* The longest suffix of s with at most cap entries.
LongestSuffix(s, cap) == SubSeq(s, Len(s) - Min(Len(s), cap) + 1, Len(s))
ChatDone(t) == pc[t] = "done" /\ arg[t].op = "chat"

\* C1: in chat the user message is in the memory before the retriever is
\* called (while the retriever runs, the newest message is the user's
\* question and nothing else was done), and a chat whose retrieval failed or
\* returned nothing still has that user message in the memory when it
\* returns, right before the reply.
C1_UserTurnRecordedBeforeRetrieval ==
    \A t \in Threads : arg[t].op = "chat" =>
        /\ pc[t] = "retrieving" =>
             /\ log[t] = <<"memory.add_user_message">>
             /\ Len(messages) >= 1
             /\ messages[Len(messages)] = UserMsg(arg[t].query_text)
        /\ (pc[t] = "done" /\ documents[t] = <<>>) =>
             /\ Len(messages) >= 2
             /\ messages[Len(messages) - 1] = UserMsg(arg[t].query_text)

\* A chat returned after its retrieval failed.
C1_Witness ==
    \E t \in Threads :
        /\ ChatDone(t) /\ documents[t] = <<>> /\ InLog(t, "logging.error")
        /\ messages[Len(messages) - 1] = UserMsg(arg[t].query_text)

\* C2: a chat whose retrieval returns no document writes the memory exactly
\* twice, first the user question and then the fixed no-documents answer,
\* returns that answer and calls no Generator operation and no LLM.
C2_NoDocumentsTwoMessages ==
    /\ [](\A t \in Threads : (ChatDone(t) /\ documents[t] = <<>>) =>
            /\ ret[t] = StrRet(NoDocumentsMsg)
            /\ CountInLog(t, MemoryWrites) = 2
            /\ CountInLog(t, GeneratorCalls) = 0
            /\ prompt[t] = NoPrompt
            /\ Len(messages) >= 2
            /\ SubSeq(messages, Len(messages) - 1, Len(messages))
                 = <<UserMsg(arg[t].query_text), AssistantMsg(NoDocumentsMsg)>>)
    /\ [][\A t \in Threads :
            /\ (pc[t] = "idle" /\ arg'[t].op = "chat") =>
                 messages' = LongestSuffix(Append(messages, UserMsg(arg'[t].query_text)),
                                           max_history)
            /\ (pc[t] = "retrieving" /\ arg[t].op = "chat" /\ documents'[t] = <<>>) =>
                 /\ pc'[t] = "noresults"
                 /\ messages' = messages
            /\ (pc[t] = "noresults" /\ arg[t].op = "chat") =>
                 /\ pc'[t] = "done"
                 /\ messages' = LongestSuffix(Append(messages, AssistantMsg(NoDocumentsMsg)),
                                              max_history)]_vars

\* A chat returned after a retrieval that succeeded with no document.
C2_Witness ==
    \E t \in Threads :
        /\ ChatDone(t) /\ documents[t] = <<>> /\ ~InLog(t, "logging.error")
        /\ ret[t] = StrRet(NoDocumentsMsg)

\* C3: whatever the cap (0 included) and whatever the calls made, the
\* memory holds at most max_history messages once a call has returned.
C3_HistoryWithinCap == Len(messages) <= max_history

\* C4: appending a message m to a history h leaves the longest suffix of
\* h followed by m that has at most max_history entries.
C4_FifoEviction ==
    [][\A text \in Queries :
         /\ MemAddUser(text) =>
              messages' = LongestSuffix(Append(messages, UserMsg(text)), max_history)
         /\ MemAddAssistant(text) =>
              messages' = LongestSuffix(Append(messages, AssistantMsg(text)), max_history)]_vars

\* The answers the conversational generator may give to a chat in progress.
ConversationalAnswers(t) ==
    {generate_conversational_response(arg[t].query_text, documents[t],
                                      history[t].val, llm).val : llm \in LlmOutcomes}

\* C5: the string a chat returns is the newest message of the memory, as an
\* assistant message: the generator's answer or error string when documents
\* were retrieved, the error string of chat's except clause when an
\* exception was raised inside chat.
C5_ReturnedStringRecorded ==
    \A t \in Threads : ChatDone(t) =>
        /\ ret[t].kind = "str"
        /\ Len(messages) >= 1
        /\ messages[Len(messages)] = AssistantMsg(ret[t].val)
        /\ documents[t] # <<>> =>
             IF history[t].set
             THEN /\ ret[t].val \in ConversationalAnswers(t)
                  /\ InLog(t, "generator.generate_conversational_response")
             ELSE ret[t].val = QueryErrorMsg("TypeError")

\* A chat returned the error string of its except clause and recorded it.
C5_Witness ==
    \E t \in Threads :
        /\ ChatDone(t) /\ documents[t] # <<>> /\ ~history[t].set
        /\ ret[t] = StrRet(QueryErrorMsg("TypeError"))
        /\ messages[Len(messages)] = AssistantMsg(QueryErrorMsg("TypeError"))

Interaction(op) == op \in {"query", "chat"}
InteractionMoves ==
    {<<"idle", "idle">>, <<"idle", "retrieving">>, <<"retrieving", "noresults">>,
     <<"retrieving", "generating">>, <<"noresults", "done">>,
     <<"generating", "generating">>, <<"generating", "done">>, <<"done", "idle">>}

InFlight == {"retrieving", "noresults", "generating"}

\* C6: a query or chat moves Idle -> Retrieving -> (NoResults | Generating)
\* -> Done and by no other step; it is Generating only with at least one
\* retrieved document and after the retriever returned, a Generator is called
\* only while Generating, and NoResults has no documents.  A call terminates:
\* it is again and again outside Retrieving, NoResults and Generating, which
\* it leaves only into Done.
C6_InteractionStateMachine ==
    /\ [][\A t \in Threads :
            (Interaction(arg[t].op) \/ Interaction(arg'[t].op)) =>
                <<pc[t], pc'[t]>> \in InteractionMoves]_vars
    /\ [](\A t \in Threads : Interaction(arg[t].op) =>
            /\ pc[t] = "generating" =>
                 documents[t] # <<>> /\ InLog(t, "retriever.retrieve")
            /\ pc[t] = "noresults" => documents[t] = <<>>
            /\ pc[t] \in {"retrieving", "noresults"} => CountInLog(t, GeneratorCalls) = 0
            /\ CountInLog(t, GeneratorCalls) > 0 => documents[t] # <<>>)
    /\ \A t \in Threads :
         []<>(~(Interaction(arg[t].op) /\ pc[t] \in InFlight))

\* A query went through Retrieving and Generating and is Done.
C6_Witness ==
    \E t \in Threads :
        /\ pc[t] = "done" /\ arg[t].op = "query"
        /\ InLog(t, "generator.generate_response") /\ InLog(t, "llm.invoke")

IngestStages ==
    <<"document_processor.load_and_split_pdfs",
      "document_processor.extract_annual_report_metadata",
      "embeddings_generator.generate_embeddings",
      "vector_store.store_embeddings",
      "client.upsert">>
StageRank(name) == CHOOSE i \in 1..Len(IngestStages) : IngestStages[i] = name
InStageOrder(l) == \A i, j \in 1..Len(l) : i < j => StageRank(l[i]) < StageRank(l[j])
IngestDone(t) == pc[t] = "done" /\ arg[t].op = "ingest"

\* C7: ingest_documents calls split, annotate, embed, upsert in that order;
\* when split gives no chunks (missing directory, no PDF file) it returns
\* False having called only split, when embed gives no embedded chunk it
\* returns False without calling upsert, and the collection changes only in
\* the upsert of an ingestion.
C7_IngestShortCircuits ==
    /\ [](\A t \in Threads : arg[t].op = "ingest" =>
            /\ InStageOrder(log[t])
            /\ log[t][1] = IngestStages[1]
            /\ (IngestDone(t) /\ ret[t] = BoolRet(TRUE)) =>
                 log[t] = SelectSeq(IngestStages,
                                    LAMBDA n : arg[t].process_metadata \/ n # IngestStages[2])
            /\ (IngestDone(t) /\ (chunks[t] = <<>>
                                  \/ arg[t].directory_path \in {"missing", "empty"})) =>
                 ret[t] = BoolRet(FALSE) /\ log[t] = <<IngestStages[1]>>
            /\ (IngestDone(t) /\ log[t][Len(log[t])] = IngestStages[3]) =>
                 ret[t] = BoolRet(FALSE))
    /\ [][store' # store =>
            \E t \in Threads : pc[t] = "upsert" /\ log'[t][Len(log'[t])] = "client.upsert"]_vars

\* An ingestion of a directory without PDF files returned False and stored
\* nothing.
C7_Witness ==
    \E t \in Threads :
        /\ IngestDone(t) /\ arg[t].directory_path = "empty"
        /\ ret[t] = BoolRet(FALSE) /\ store = <<>>

\* C8: no exception leaves ingest_documents, query, chat or
\* financial_summary; ingest_documents returns a boolean and the other three
\* a string.
C8_NothingEscapesOrchestrator ==
    \A t \in Threads :
        /\ ~raised[t]
        /\ pc[t] = "done" =>
             /\ arg[t].op = "ingest" => ret[t].kind = "bool"
             /\ arg[t].op \in {"query", "chat", "summary"} => ret[t].kind = "str"

\* An ingestion whose split stage raised (the path is a plain file) returned
\* False.
C8_Witness ==
    \E t \in Threads :
        /\ IngestDone(t) /\ arg[t].directory_path = "report.txt"
        /\ ret[t] = BoolRet(FALSE) /\ ~raised[t]

RetrieverDone(t) == pc[t] = "done" /\ arg[t].op \in {"retrieve", "search_by_filters"}

\* C9: retrieve and search_by_filters never raise; when a call inside them
\* fails they return the empty list.
C9_RetrieverNeverRaises ==
    \A t \in Threads : RetrieverDone(t) =>
        /\ ~raised[t]
        /\ InLog(t, "raise") => documents[t] = <<>>

\* A retrieve whose vector search failed over a collection that holds
\* records returned the empty list.
C9_Witness ==
    \E t \in Threads :
        /\ RetrieverDone(t) /\ arg[t].op = "retrieve" /\ store # <<>>
        /\ log[t] = <<"embed_query", "client.search", "raise", "logging.error">>
        /\ documents[t] = <<>> /\ ~raised[t]

\* The criteria a retrieve call supplies, one condition each.
SuppliedConditions(a) ==
    [i \in 1..Len(a.filter_params) |->
        FieldCondition(a.filter_params[i][1], a.filter_params[i][2])]
    \o (IF a.year # None
        THEN <<FieldCondition("metadata.years_mentioned", a.year[1])>> ELSE <<>>)
    \o (IF a.financial_only
        THEN <<FieldCondition("metadata.contains_financial_info", TRUE)>> ELSE <<>>)
SameCondition(c, d) == c.key = d.key /\ c.value = d.value

\* C10: the filter retrieve hands to the vector database holds one
\* must-condition per supplied criterion (every supplied year, 0 included,
\* financial_only = true, every filter_params pair) and nothing else, and no
\* filter is sent when no criterion is supplied.
C10_FilterIsSuppliedCriteria ==
    \A t \in Threads : (pc[t] = "done" /\ arg[t].op = "retrieve" /\ sent[t].sent) =>
        LET want == SuppliedConditions(arg[t])
        IN  /\ sent[t].present = (Len(want) > 0)
            /\ Len(sent[t].must) = Len(want)
            /\ \A i \in 1..Len(want) :
                 \E j \in 1..Len(sent[t].must) : SameCondition(sent[t].must[j], want[i])

RetrieveDone(t) == pc[t] = "done" /\ arg[t].op = "retrieve"
HasYear(metadata, y) ==
    /\ "years_mentioned" \in DOMAIN metadata
    /\ \E i \in 1..Len(metadata["years_mentioned"]) : metadata["years_mentioned"][i] = y
IsFinancial(metadata) ==
    /\ "contains_financial_info" \in DOMAIN metadata
    /\ metadata["contains_financial_info"] = TRUE

\* C11: over a database that honours the filter it is handed, every
\* Document retrieve returns with financial_only = true has
\* contains_financial_info = true in its metadata, and every Document it
\* returns with year = y has y among its years_mentioned, whatever the
\* collection holds.
C11_ResultsMeetCriteria ==
    \A t \in Threads : RetrieveDone(t) =>
        \A i \in 1..Len(documents[t]) :
            /\ arg[t].financial_only => IsFinancial(documents[t][i].metadata)
            /\ arg[t].year # None => HasYear(documents[t][i].metadata, arg[t].year[1])

GeneratorOps ==
    {"generate_response", "generate_conversational_response", "generate_financial_summary"}
GeneratorDone(t) == pc[t] = "done" /\ arg[t].op \in GeneratorOps

\* C13: each of generate_response, generate_conversational_response and
\* generate_financial_summary, given no document, returns its fixed sentinel
\* string and neither builds a prompt nor invokes the LLM.
C13_NoDocumentsSentinel ==
    \A t \in Threads : (GeneratorDone(t) /\ documents[t] = <<>>) =>
        /\ ret[t] = StrRet(IF arg[t].op = "generate_financial_summary"
                           THEN SummarySentinel ELSE GeneratorSentinel)
        /\ ~InLog(t, "llm.invoke")
        /\ prompt[t] = NoPrompt
        /\ ~raised[t]

\* generate_financial_summary was called without documents and returned its
\* sentinel.
C13_Witness ==
    \E t \in Threads :
        /\ GeneratorDone(t) /\ arg[t].op = "generate_financial_summary"
        /\ documents[t] = <<>> /\ ret[t] = StrRet(SummarySentinel)

RECURSIVE SplitLines(_)
\* The lines of a text, each one ended by a line feed.
SplitLines(text) ==
    IF Len(text) = 0 THEN <<>>
    ELSE LET n == CHOOSE i \in 1..Len(text) :
                    /\ SubSeq(text, i, i) = "\n"
                    /\ \A j \in 1..(i - 1) : SubSeq(text, j, j) # "\n"
         IN  <<SubSeq(text, 1, n - 1)>> \o SplitLines(SubSeq(text, n + 1, Len(text)))

\* C14: the context built from documents d1..dn reads, line by line, as n
\* blocks in the documents' order: the header "[Document i from <source of
\* di>]", the content of di, and a blank line before the next block.
C14_ContextBlocksInOrder ==
    \A t \in Threads : (GeneratorDone(t) /\ documents[t] # <<>>) =>
        LET docs == documents[t]
            lines == SplitLines(prompt[t].context)
        IN  /\ Len(lines) = 3 * Len(docs) - 1
            /\ \A i \in 1..Len(docs) :
                 /\ lines[3 * i - 2] =
                      "[Document " \o ToString(i) \o " from " \o docs[i].source \o "]"
                 /\ lines[3 * i - 1] = docs[i].content
                 /\ i < Len(docs) => lines[3 * i] = ""

\* A context of two blocks from documents of different files.
C14_Witness ==
    \E t \in Threads :
        /\ GeneratorDone(t) /\ Len(documents[t]) = 2
        /\ documents[t][1].source = "b.pdf" /\ documents[t][2].source = "a.pdf"
        /\ Len(SplitLines(prompt[t].context)) = 5

ResponseErrorPrefix == "An error occurred while generating the response: "

\* C15: generate_response with at least one document invokes the LLM exactly
\* once and never raises; when the invocation fails it returns the error
\* string that ends with the failure's message and makes no second
\* invocation.
C15_OneInvocationNoRaise ==
    \A t \in Threads :
        (GeneratorDone(t) /\ arg[t].op = "generate_response" /\ documents[t] # <<>>) =>
            /\ CountInLog(t, {"llm.invoke"}) = 1
            /\ ~raised[t]
            /\ ret[t].kind = "str"
            /\ IF InLog(t, "raise")
               THEN \E llm \in LlmOutcomes :
                        ~llm.ok /\ ret[t].val = ResponseErrorPrefix \o llm.text
               ELSE \E llm \in LlmOutcomes : llm.ok /\ ret[t].val = llm.text

\* generate_response returned the error string of a failed invocation.
C15_Witness ==
    \E t \in Threads :
        /\ GeneratorDone(t) /\ arg[t].op = "generate_response" /\ documents[t] # <<>>
        /\ InLog(t, "raise") /\ ret[t] = StrRet(ResponseErrorPrefix \o "timeout")

RECURSIVE SuccessfulPairs(_, _, _, _)
\* The (chunk, vector) pairs of the batches that succeeded, from batch b on:
\* a batch succeeded when the provider answered with a vector for each of
\* its texts.
SuccessfulPairs(document_chunks, batch_size, outs, b) ==
    LET from == (b - 1) * batch_size
        to == Min(from + batch_size, Len(document_chunks))
    IN  IF from >= Len(document_chunks) THEN <<>>
        ELSE (IF outs[b] >= to - from
              THEN [j \in 1..(to - from) |->
                      [document |-> document_chunks[from + j],
                       embedding |-> Embedding(document_chunks[from + j].page_content)]]
              ELSE <<>>)
             \o SuccessfulPairs(document_chunks, batch_size, outs, b + 1)
EmbedDone(t) == pc[t] = "done" /\ arg[t].op = "generate_embeddings"

\* C16: generate_embeddings does not raise and returns exactly the pairs of
\* the batches that succeeded, in input order, each chunk paired with the
\* vector of its own text; a batch that failed, the provider's answer being
\* too short included, contributes nothing.
C16_OnlySuccessfulBatches ==
    \A t \in Threads : EmbedDone(t) =>
        /\ ~raised[t]
        /\ chunks[t] = SuccessfulPairs(arg[t].document_chunks, arg[t].batch_size,
                                       arg[t].outs, 1)

CreateStep(t) ==
    pc[t] = "idle" /\ pc'[t] = "done" /\ arg'[t].op = "create_collection_if_not_exists"
CreateCalls == {"client.create_collection", "client.create_payload_index"}
CountInLogNext(t, names) ==
    Cardinality({i \in 1..Len(log'[t]) : log'[t][i] \in names})

\* C17: _create_collection_if_not_exists issues create_collection and
\* create_payload_index calls only when the collection is absent, and then,
\* no call failing, leaves the collection with its three payload indexes;
\* run on a database that holds the collection it changes nothing, neither
\* collections, indexes nor records.
C17_CreateOnlyWhenAbsent ==
    [][\A t \in Threads : CreateStep(t) =>
         /\ store' = store
         /\ schema.collections \subseteq schema'.collections
         /\ collection_name \in schema.collections =>
              schema' = schema /\ CountInLogNext(t, CreateCalls) = 0
         /\ CountInLogNext(t, CreateCalls) > 0 => collection_name \notin schema.collections
         /\ (collection_name \notin schema.collections /\ ~raised'[t]) =>
              /\ schema'.collections = schema.collections \cup {collection_name}
              /\ schema'.indexes = schema.indexes \cup CreatedSchema.indexes
              /\ CountInLogNext(t, {"client.create_collection"}) = 1
              /\ CountInLogNext(t, {"client.create_payload_index"}) = 3]_vars

\* A run over the collection a first run created, records already stored,
\* made no create call.
C17_Witness ==
    \E t \in Threads :
        /\ pc[t] = "done" /\ arg[t].op = "create_collection_if_not_exists"
        /\ log[t] = <<"client.get_collections">> /\ ~raised[t]
        /\ schema = CreatedSchema /\ store # <<>>

StoreStep(t) == pc[t] = "idle" /\ pc'[t] = "done" /\ arg'[t].op = "store_embeddings"

\* C18: a successful store_embeddings makes one upsert call and adds one
\* record per embedded chunk, each under an identifier no record had and
\* with the chunk's text, metadata and vector; every record stored before is
\* kept as it was, so storing the same chunks again adds them again.  A
\* store_embeddings that fails adds nothing.
C18_OneFreshRecordPerChunk ==
    [][\A t \in Threads : StoreStep(t) =>
         LET e == arg'[t].embedded_chunks
         IN  IF ret'[t] = BoolRet(TRUE)
             THEN /\ CountInLogNext(t, {"client.upsert"}) = 1
                  /\ Len(store') = Len(store) + Len(e)
                  /\ \A i \in 1..Len(store) : store'[i] = store[i]
                  /\ \A i \in 1..Len(e) :
                       LET r == store'[Len(store) + i]
                       IN  /\ r.payload.text = e[i].document.page_content
                           /\ r.payload.metadata = e[i].document.metadata
                           /\ r.vector = e[i].embedding
                           /\ \A j \in 1..Len(store') :
                                j # Len(store) + i => store'[j].id # r.id
             ELSE store' = store]_vars

\* The same two chunks were stored twice: four records, the third a copy of
\* the first under another identifier.
C18_Witness ==
    \E t \in Threads :
        /\ pc[t] = "done" /\ arg[t].op = "store_embeddings" /\ ret[t] = BoolRet(TRUE)
        /\ Len(arg[t].embedded_chunks) = 2 /\ Len(store) = 4
        /\ store[3].payload = store[1].payload /\ store[4].payload = store[2].payload
        /\ store[3].id # store[1].id

\* The metadata of a chunk ingested with metadata processing: the derived
\* field contains_financial_info is there.
Annotated(metadata) == "contains_financial_info" \in DOMAIN metadata
FromFile(metadata) == "source" \in DOMAIN metadata /\ metadata["source"] \in PdfFiles

\* C19: a chunk ingested with metadata processing is stored with the name of
\* its file as metadata.source next to the derived fields, a Document
\* retrieved for it has that file as source, not "Unknown", and the context
\* handed to the LLM names the file.
C19_SourceKeptByAnnotation ==
    /\ \A i \in 1..Len(store) :
         Annotated(store[i].payload.metadata) => FromFile(store[i].payload.metadata)
    /\ \A t \in Threads : \A i \in 1..Len(documents[t]) :
         Annotated(documents[t][i].metadata) =>
            /\ documents[t][i].source \in PdfFiles
            /\ prompt[t] # NoPrompt => Contains(prompt[t].context, documents[t][i].source)

ExtractDone(t) == pc[t] = "done" /\ arg[t].op = "extract_annual_report_metadata"
\* The years of the range whose decimal form occurs in a text.
YearsOccurring(text) == {y \in YearFrom..(YearTo - 1) : Contains(text, ToString(y))}

\* C20: extract_annual_report_metadata gives every chunk, as years_mentioned,
\* the years from 2000 to 2029 written in the chunk's text, each once and in
\* ascending order, and no years_mentioned field when the text has none.
C20_YearsMentionedExact ==
    \A t \in Threads : ExtractDone(t) =>
        /\ Len(chunks[t]) = Len(arg[t].document_chunks)
        /\ \A i \in 1..Len(chunks[t]) :
             LET md == chunks[t][i].metadata
                 want == YearsOccurring(arg[t].document_chunks[i].page_content)
             IN  /\ chunks[t][i].page_content = arg[t].document_chunks[i].page_content
                 /\ IF want = {}
                    THEN "years_mentioned" \notin DOMAIN md
                    ELSE /\ "years_mentioned" \in DOMAIN md
                         /\ {md["years_mentioned"][j] : j \in 1..Len(md["years_mentioned"])} = want
                         /\ \A j, k \in 1..Len(md["years_mentioned"]) :
                              j < k => md["years_mentioned"][j] < md["years_mentioned"][k]

\* A chunk with the first and the last year of the range next to a chunk
\* whose only year, 2030, is outside it.
C20_Witness ==
    \E t \in Threads :
        /\ ExtractDone(t) /\ Len(chunks[t]) = 2
        /\ chunks[t][1].page_content = "From 2029 back to 2000"
        /\ chunks[t][1].metadata["years_mentioned"] = <<2000, 2029>>
        /\ chunks[t][2].page_content = "Outlook 2030"
        /\ "years_mentioned" \notin DOMAIN chunks[t][2].metadata

\* C21: extract_annual_report_metadata is idempotent and free of side
\* effects: applied to the chunks it returned it returns them unchanged, and
\* the chunk objects it was given have, for their caller, the metadata after
\* the call that they had before it.
C21_AnnotateIdempotentNoSideEffect ==
    \A t \in Threads : ExtractDone(t) =>
        /\ extract_annual_report_metadata(chunks[t]) = chunks[t]
        /\ arg[t].given = arg[t].document_chunks

LoadDone(t) == pc[t] = "done" /\ arg[t].op = "load_and_split_pdfs"
RECURSIVE Concatenation(_)
Concatenation(lists) ==
    IF Len(lists) = 0 THEN <<>> ELSE Head(lists) \o Concatenation(Tail(lists))
\* The PDF files of a directory that were processed, in listing order.
Processed(directory_path, failing) ==
    SelectSeq(Listing(directory_path),
              LAMBDA f : f \notin failing /\ Lower(SubSeq(f, Len(f) - 3, Len(f))) = ".pdf")

\* C22: load_and_split_pdfs over a directory returns the chunks of every PDF
\* file that was loaded and split, file after file in listing order, whatever
\* the files that failed and wherever they are in the listing, and a file
\* that fails does not make the call raise.
C22_FailingFilesSkipped ==
    \A t \in Threads : (LoadDone(t) /\ IsDirectory(arg[t].directory_path)) =>
        LET ok == Processed(arg[t].directory_path, arg[t].failing)
        IN  /\ ~raised[t]
            /\ chunks[t] = Concatenation([i \in 1..Len(ok) |-> SplitChunks(ok[i])])

\* The first of three PDF files failed and the chunks of the two others were
\* returned, the second file's before the third's.
C22_Witness ==
    \E t \in Threads :
        /\ LoadDone(t) /\ arg[t].directory_path = "reports" /\ arg[t].failing = {"a.pdf"}
        /\ Len(chunks[t]) = 3 /\ ~raised[t]
        /\ chunks[t][1].metadata.source = "b.PDF" /\ chunks[t][3].metadata.source = "c.pdf"

Stateless == {"query", "summary", "ingest"}
MemoryCalls ==
    {"memory.add_user_message", "memory.add_assistant_message", "memory.get_context_string"}

\* C23: query, financial_summary and ingest_documents call no operation of
\* the conversation memory and no step of theirs, of a call that succeeds or
\* of one that fails, changes the stored messages; the messages change only
\* in a step of chat or in clear_conversation.
C23_MemoryOnlyInChat ==
    /\ [](\A t \in Threads : arg[t].op \in Stateless => CountInLog(t, MemoryCalls) = 0)
    /\ [][\A t \in Threads :
            (arg[t].op \in Stateless \/ arg'[t].op \in Stateless) => messages' = messages]_vars
    /\ [][messages' # messages =>
            \E t \in Threads :
                \/ arg'[t].op = "chat" /\ pc'[t] # pc[t]
                \/ pc[t] = "idle" /\ pc'[t] = "idle" /\ messages' = <<>>]_vars

\* A financial_summary whose filter scan failed returned its error string
\* while the memory held the two messages of an earlier chat.
C23_Witness ==
    \E t \in Threads :
        /\ pc[t] = "done" /\ arg[t].op = "summary" /\ InLog(t, "raise")
        /\ Len(messages) = 2 /\ messages[1].role = "user" /\ messages[2].role = "assistant"

SemanticCalls == {"retriever.retrieve", "embed_query", "client.search"}
FinancialCondition == FieldCondition("metadata.contains_financial_info", TRUE)
YearCondition(y) == FieldCondition("metadata.years_mentioned", y)
Scanned(t) == pc[t] \in {"noresults", "generating", "done"}

\* C24: financial_summary computes no query embedding and makes no
\* nearest-neighbour search; once past its retrieval it has made one
\* search_by_filters call and no other, the filter of that call holds the
\* condition contains_financial_info = true whatever year and k the caller
\* passed, it holds a year condition only when a year was supplied, and then
\* for that year, and the documents are those the scan returned.
C24_SummaryUsesFilterScanOnly ==
    \A t \in Threads : arg[t].op = "summary" =>
        /\ CountInLog(t, SemanticCalls) = 0
        /\ Scanned(t) =>
             /\ CountInLog(t, {"retriever.search_by_filters"}) = 1
             /\ CountInLog(t, {"client.scroll"}) = 1
             /\ sent[t].sent /\ sent[t].present
             /\ sent[t].must[1] = FinancialCondition
             /\ arg[t].year = None => sent[t].must = <<FinancialCondition>>
             /\ Len(sent[t].must) > 1 =>
                  /\ arg[t].year # None
                  /\ sent[t].must = <<FinancialCondition, YearCondition(arg[t].year[1])>>
             /\ (arg[t].year # None /\ arg[t].year[1] # 0) => Len(sent[t].must) = 2
             /\ Len(documents[t]) <= Len(hits[t])
             /\ \A i \in 1..Len(documents[t]) :
                  /\ documents[t][i].content = hits[t][i].payload.text
                  /\ IsFinancial(documents[t][i].metadata)

\* A financial_summary for 2022 over a collection with a financial chunk of
\* that year summarised the document the scan returned.
C24_Witness ==
    \E t \in Threads :
        /\ pc[t] = "done" /\ arg[t].op = "summary" /\ arg[t].year = Some(2022)
        /\ Len(documents[t]) = 1 /\ Len(sent[t].must) = 2
        /\ InLog(t, "generator.generate_financial_summary")

ContextDone(t) == pc[t] = "done" /\ arg[t].op = "get_context_string"
\* One line per message, "User: ..." or "Assistant: ...", joined by line feeds.
Rendered(msgs) ==
    JoinWith([i \in 1..Len(msgs) |->
                (IF msgs[i].role = "user" THEN "User: " ELSE "Assistant: ")
                \o msgs[i].content], "\n")

\* C25: get_context_string(n) renders, for every n >= 0 (0 included) and
\* every history, exactly the min(n, length) most recent messages in
\* chronological order, one line per message, and the whole history for
\* n = None only.
C25_ContextWindowBounded ==
    \A t \in Threads : ContextDone(t) =>
        LET num == arg[t].num_messages
        IN  history[t].val = Rendered(IF num.t = "none" THEN messages
                                      ELSE LongestSuffix(messages, num.v))

Alternates(msgs) == \A i \in 1..(Len(msgs) - 1) : msgs[i].role # msgs[i + 1].role
ChatInFlight(t) == arg[t].op = "chat" /\ pc[t] \in InFlight
Stepped(t) == pc'[t] # pc[t] \/ log'[t] # log[t]
\* The memory as one caller at a time leaves it: user and assistant messages
\* alternate, a chat in progress has its question as the newest message, and
\* with no chat in progress the newest message is a reply.
PairedHistory ==
    /\ Alternates(messages)
    /\ \A t \in Threads : ChatInFlight(t) =>
          Len(messages) >= 1 /\ messages[Len(messages)] = UserMsg(arg[t].query_text)
    /\ (\A t \in Threads : ~ChatInFlight(t)) =>
          messages = <<>> \/ messages[Len(messages)].role = "assistant"

\* C26: with two callers on one application the history stops being a
\* sequence of questions each followed by its own reply, and it does so only
\* in a step taken while a chat of another caller is in progress: a call that
\* runs alone keeps the pairing, interleaved calls do not.
C26_InterleavingBreaksPairing ==
    [][(PairedHistory /\ ~PairedHistory') =>
          \E u \in Threads : ChatInFlight(u) /\ ~Stepped(u)]_vars

\* Two chats interleaved: the reply to one question is recorded right after
\* the other caller's question, and the history window that was handed to
\* the generator for the first request holds the other request's question.
C26_Witness ==
    \E t, u \in Threads :
        /\ t # u /\ ChatDone(t) /\ arg[u].op = "chat"
        /\ arg[t].query_text # arg[u].query_text
        /\ InLog(t, "llm.invoke")
        /\ Len(messages) = 2
        /\ messages[1] = UserMsg(arg[u].query_text)
        /\ messages[2] = AssistantMsg(ret[t].val)
        /\ history[t].val = "User: " \o arg[u].query_text
        /\ prompt[t].conversation_history = history[t].val

AtRest == \A t \in Threads : pc[t] \in {"idle", "done"}
MemoryWritesOf(t) == SelectSeq(log[t], LAMBDA n : n \in MemoryWrites)

\* C27: with calls that do not overlap and an even cap of at least 2, a chat
\* that returned has written the memory twice, its user message and then one
\* assistant message, which are the two newest messages; and while no call is
\* in progress the history is empty or goes user, assistant, user, assistant,
\* from a user message to an assistant message.
C27_PairsAtRest ==
    /\ \A t \in Threads : ChatDone(t) =>
          /\ MemoryWritesOf(t) = <<"memory.add_user_message", "memory.add_assistant_message">>
          /\ Len(messages) >= 2
          /\ messages[Len(messages) - 1] = UserMsg(arg[t].query_text)
          /\ messages[Len(messages)] = AssistantMsg(ret[t].val)
    /\ AtRest =>
          /\ Len(messages) % 2 = 0
          /\ \A i \in 1..Len(messages) :
                messages[i].role = (IF i % 2 = 1 THEN "user" ELSE "assistant")

\* A third chat returned on an application with the cap 4: the oldest pair
\* was dropped and two whole pairs are left.
C27_Witness ==
    \E t \in Threads :
        /\ ChatDone(t) /\ max_history = 4 /\ Len(messages) = 4
        /\ messages[1] = UserMsg("q2") /\ messages[2] = AssistantMsg("a1")
        /\ messages[3] = UserMsg("q1") /\ messages[4] = AssistantMsg(NoDocumentsMsg)

\* The lines of a history string.
HistoryLines(text) == IF text = "" THEN <<>> ELSE SplitLines(text \o "\n")

\* C28: the history string chat hands to the conversational generator was
\* read after the current user message was recorded: it has at most
\* conversation_context_size lines, one per message, its last line is the
\* current question, and the prompt carries the question both in that
\* history and as the latest question.
C28_WindowEndsWithQuestion ==
    \A t \in Threads : (arg[t].op = "chat" /\ history[t].set) =>
        LET lines == HistoryLines(history[t].val)
        IN  /\ Len(lines) <= arg[t].conversation_context_size.v
            /\ Len(lines) >= 1
            /\ lines[Len(lines)] = "User: " \o arg[t].query_text
            /\ prompt[t] # NoPrompt =>
                 /\ prompt[t].conversation_history = history[t].val
                 /\ prompt[t].question = arg[t].query_text

CreateDone(t) == pc[t] = "done" /\ arg[t].op = "create_collection_if_not_exists"
HasAllIndexes(s) ==
    \A i \in 1..Len(payload_indexes) :
        <<collection_name, payload_indexes[i].field_name, payload_indexes[i].field_schema>>
            \in s.indexes

\* C29: whatever constructions came before, those that failed in
\* create_collection or create_payload_index included, once a construction
\* has succeeded the collection exists with its three payload indexes: the
\* construction created the indexes an earlier failure left missing.
C29_IndexesRepaired ==
    \A t \in Threads : (CreateDone(t) /\ ~raised[t]) =>
        /\ collection_name \in schema.collections
        /\ HasAllIndexes(schema)

IngestReturns(t) == arg[t].op = "ingest" /\ pc[t] # "done" /\ pc'[t] = "done"
\* The embedding stage ran and the provider answered at least one batch with
\* a vector for each of its texts.
SomeBatchSucceeded(a) ==
    /\ "outs" \in DOMAIN a
    /\ \E b \in DOMAIN a.outs :
          a.outs[b] >= Min(default_batch_size,
                           Len(a.document_chunks) - (b - 1) * default_batch_size)

\* C30: ingest_documents returns True exactly when at least one embedding
\* batch succeeded and the upsert call was made and succeeded, and the
\* records it then wrote are the chunks of the successful batches, one
\* record each and in order, which may be fewer than the chunks the split
\* stage produced.
C30_TrueIffBatchAndUpsert ==
    [][\A t \in Threads : IngestReturns(t) =>
         LET a == arg'[t]
             upserted == pc[t] = "upsert" /\ store' # store
             pairs == IF "outs" \in DOMAIN a
                      THEN SuccessfulPairs(a.document_chunks, default_batch_size, a.outs, 1)
                      ELSE <<>>
         IN  /\ (ret'[t] = BoolRet(TRUE)) = (SomeBatchSucceeded(a) /\ upserted)
             /\ ret'[t] = BoolRet(TRUE) =>
                  /\ Len(store') = Len(store) + Len(pairs)
                  /\ \A i \in 1..Len(pairs) :
                       /\ store'[Len(store) + i].payload.text = pairs[i].document.page_content
                       /\ store'[Len(store) + i].vector = pairs[i].embedding]_vars

====
